---- MODULE Spec2Model ----
(***************************************************************************)
(* roguelike.h: the tile batch of a terminal (the growable tile record     *)
(* buffer, the push variants, clear, resize, atlas change, draw) as a      *)
(* state machine.                                                          *)
(*                                                                         *)
(* The repository holds three generations of the header:                   *)
(*   "v0"  src/unnamed/part_001 lines 1..723   (void API, atlas in term)   *)
(*   "v1"  src/include/roguelike.h             (version 1.2.0, rlhresult_t)*)
(*   "v2"  src/README.md                       (version v2.0.0, vertex     *)
(*                                              data + element buffer)     *)
(* One of them is compiled into a program; `version` says which.           *)
(*                                                                         *)
(* The variables carry the v1 field names.  The other generations name     *)
(* the same fields                                                         *)
(*   v1 TileDataCount     v0 DataTileCount          v2 vertex_data_tile_count    *)
(*   v1 TileDataCapacity  v0 DataReservedTileCount  v2 vertex_data_tile_capacity *)
(*   v1 TileData          v0 Data                   v2 vertex_data               *)
(*   v1 PixelWidth        v0 ConsolePixelWidth      v2 unscaled_pixel_width      *)
(*   v1 TilesWide         v0 ConsoleTilesWide       v2 tiles_wide                *)
(*   v1 TileWidth         v0 DefaultTilePixelWidth  v2 tile_width                *)
(*   v1 PixelScale        v0 ConsolePixelScale      v2 pixel_scale               *)
(*   v1 DataBUF           v0 DataBUF                v2 gl_vertex_buffer          *)
(*   (v1: none)           v0 AtlasGlyphCount        v2 glyph_count               *)
(* and likewise for the heights.  v2 scaled_pixel_width is always          *)
(* unscaled_pixel_width * pixel_scale when _rlhTermSetPixelSize returns.   *)
(***************************************************************************)
EXTENDS Integers, Sequences, FiniteSets, TLC

VARIABLES
    version,            \* which generation of the header is compiled
    retained,           \* RLH_RETAINED_MODE is defined
    term,               \* the caller's handle: "NULL", "live", "freed" (the
                        \* struct was freed), "destroyed" (v0: zeroed)
    PixelWidth, PixelHeight,
    TilesWide, TilesTall,
    PixelScale,
    TileWidth, TileHeight,
    TileDataCapacity,   \* allocated slots
    TileDataCount,      \* live tiles since the last clear
    TileData,           \* the allocated storage, one element per slot
    glyph_count,        \* glyphs of the terminal's atlas (v0, v2)
    gl_vertex_buffer,   \* the GPU buffer the tile data is uploaded to
    vertex_data_changed,\* v2: tile data was written since the last upload
    element_glyph_count,\* v2: tiles the element data has indices for
    element_data,       \* v2: the indices of each tile, one element per tile
    op,                 \* the last API call
    args,               \* the arguments of a push, by their C names
    result,             \* the status it returned
    gl_calls,           \* the OpenGL calls of the last call: how many times
                        \* it uploaded the tile data and the vertex or index
                        \* count of each draw it submitted
    grown,              \* the allocation of the tile buffer by the last call,
                        \* the realloc of a push or the malloc of a creation
                        \* that failed: "none" (not asked for), "ok" or "failed"
    scissor,            \* the OpenGL scissor as a translated or transformed
                        \* draw leaves it, step by step: the arguments of the
                        \* draw, the box given to glScissor, the scissor test
    unfreed,            \* how many blocks the last call allocated and left
                        \* neither freed nor reachable from the caller's handle
    drawn,              \* the tiles its draw submission covered, in order
    pushed              \* history: the tiles written since the last clear

vars == <<version, retained, term, PixelWidth, PixelHeight, TilesWide, TilesTall,
          PixelScale, TileWidth, TileHeight, TileDataCapacity, TileDataCount,
          TileData, glyph_count, gl_vertex_buffer, vertex_data_changed,
          element_glyph_count, element_data, op, args, result, gl_calls, grown, unfreed, drawn, pushed, scissor>>

sizing == <<PixelWidth, PixelHeight, TilesWide, TilesTall, PixelScale,
            TileWidth, TileHeight>>

buffer == <<TileDataCapacity, TileDataCount, TileData, pushed>>

gpu == <<gl_vertex_buffer, vertex_data_changed, element_glyph_count, element_data>>

\* the terminal and what the last call on it returned
terminal == <<version, retained, term, sizing, buffer, glyph_count, gpu, op, args,
              result, gl_calls, grown, unfreed, drawn>>

----------------------------------------------------------------------------
(* Bounds of the model *)

\* pushes are offered while fewer than MaxTiles tiles are live
MaxTiles == 2

----------------------------------------------------------------------------
(* Program constants *)

RLH_RESULT_OK == 0
RLH_RESULT_TILE_OUT_OF_TERMINAL == 2
RLH_RESULT_ERROR_NULL_ARGUMENT == 3
RLH_RESULT_ERROR_INVALID_VALUE == 4
RLH_RESULT_ERROR_OUT_OF_MEMORY == 5

\* the v2 numbering of the error codes
RLH_RESULT_ERROR_NULL_ARGUMENT_v2 == 1
RLH_RESULT_ERROR_INVALID_VALUE_v2 == 2
RLH_RESULT_ERROR_OUT_OF_MEMORY_v2 == 3

RLH_TILE_POSITION_OFFSET == 16384
RLH_MAX_TILE_SIZE == 65565

\* v2 rlhsizemode_t
RLH_SIZE_TILES == 0
RLH_SIZE_SCALED_PIXELS == 1
RLH_SIZE_UNSCALED_PIXELS == 2
RLH_SIZE_MODE_COUNT == 3

\* v2: the capacity _rlhTermTryReserveVertexData gives an empty allocation
FirstCapacity == 8
RLH_VERTICES_PER_TILE == 6      \* v0 and v1: glDrawArrays reads 6 per tile
RLH_ELEMENTS_PER_TILE == 6      \* v2: glDrawElements reads 6 indices per tile
RLH_VERTICES_PER_TILE_v2 == 4   \* v2: the vertices a tile has in the vertex data

\* the status of a function that returns nothing
Void == 0 - 1
\* the status of a function that returns a value without a return statement
\* having run: whatever the return register holds
Indeterminate == 0 - 2
\* a slot whose bytes the model does not carry: never written, or dead
Uninit == [uninit |-> TRUE]
\* an indeterminate value: what a read outside the allocated storage yields
Garbage == [garbage |-> TRUE]
\* the arguments recorded for a call that is no push
NoArgs == [none |-> TRUE]
\* a call that makes no OpenGL upload and no OpenGL draw
NoCalls == [glBufferData |-> 0, glDraw |-> <<>>]
\* no translated or transformed draw is under way; the scissor test is off, as
\* OpenGL starts with it
NoScissor == [pc |-> "none", test |-> FALSE]

----------------------------------------------------------------------------
(* Inputs *)

Versions == {"v0", "v1", "v2"}

\* pixel sizes, tile sizes, tile counts and scales the caller passes to create
\* and resize (0 is the invalid value)
PixelWidths == {0, 1, 2}
PixelHeights == {0, 2}
TileDims == {2}
Scales == {1}
TilesWideArgs == {0, 1}
TilesTallArgs == {0, 1}
\* the extents and the size modes of a v2 size_info (RLH_SIZE_MODE_COUNT is
\* the invalid mode)
SizeExtents == {0, 1}
SizeModes == {RLH_SIZE_TILES, RLH_SIZE_UNSCALED_PIXELS, RLH_SIZE_MODE_COUNT}
GlyphCounts == {0, 2}

\* glyph, foreground, background of the tiles the caller pushes
TileLooks == {<<0, "white", "black">>, <<2, "red", "clear">>}
OneLook == {<<0, "white", "black">>}

\* grid cells <<grid_x, grid_y>> the caller pushes at
GridCells == {<<0, 0>>, <<0 - 1, 0>>, <<1, 0>>}
\* pixel positions <<screen_pixel_x, screen_pixel_y>> of the free pushes
FreePixels == {<<0, 0>>, <<0 - 3, 0>>, <<0 - 1, 0>>, <<2, 0>>}
\* explicit sizes <<tile_pixel_width, tile_pixel_height>> of the sized pushes
TileSizes == {<<2, 2>>, <<0, 2>>, <<65566, 2>>}
\* the sizes tried at a position: every size at the origin, the tile size at
\* the other positions
TileSizesAt(position) == IF position = <<0, 0>> THEN TileSizes ELSE {<<2, 2>>}

\* a pointer argument
Pointers == {"valid", "NULL"}

----------------------------------------------------------------------------
(* Pure helpers *)

\* the two bytes _rlhTermPushTile stores for a 16 bit field: v & 0xff, (v >> 8) & 0xff
\* (of the two's complement bits of v: % and \div round towards minus infinity)
Bytes16(v) == <<v % 256, (v \div 256) % 256>>

\* the 18 byte record the v0 and v1 _rlhTermPushTile write
TileRecord(pixel_x, pixel_y, pixel_w, pixel_h, glyph, fg, bg) ==
    [ x |-> Bytes16(pixel_x + RLH_TILE_POSITION_OFFSET),
      y |-> Bytes16(pixel_y + RLH_TILE_POSITION_OFFSET),
      w |-> Bytes16(pixel_w),
      h |-> Bytes16(pixel_h),
      glyph |-> Bytes16(glyph),
      fg |-> fg,
      bg |-> bg ]

\* realloc(ptr, n slots): the old contents up to the smaller size, the rest unwritten
Realloc(data, new_capacity) ==
    [i \in 1..new_capacity |-> IF i <= Len(data) THEN data[i] ELSE Uninit]

\* the storage with every slot dead.  Once the count is 0 the bytes of the
\* slots, and of the GPU copy of them, are not read again before they are
\* rewritten (every reader reads count records from slot 0, and a draw with
\* count 0 reads nothing), so the model does not carry them: the slots
\* read as Uninit, and gl_vertex_buffer holds the tiles uploaded since the
\* count was last 0
Dead(data) == [i \in 1..Len(data) |-> Uninit]

\* the record in slot i (0-based) as a reader of count records finds it
Slot(data, i) == IF i + 1 <= Len(data) THEN data[i + 1] ELSE Garbage

\* the first n records of the storage, as glBufferData copies them and as a
\* draw of n tiles reads them
LivePrefix(data, n) == [i \in 1..n |-> Slot(data, i - 1)]

----------------------------------------------------------------------------
Init ==
    /\ version \in Versions
    /\ retained \in (IF version = "v0" THEN {FALSE} ELSE BOOLEAN)
    /\ term = "NULL"
    /\ PixelWidth = 0 /\ PixelHeight = 0
    /\ TilesWide = 0 /\ TilesTall = 0
    /\ PixelScale = 0
    /\ TileWidth = 0 /\ TileHeight = 0
    /\ TileDataCapacity = 0
    /\ TileDataCount = 0
    /\ TileData = <<>>
    /\ glyph_count = 0
    /\ gl_vertex_buffer = <<>>
    /\ vertex_data_changed = FALSE
    /\ element_glyph_count = 0
    /\ element_data = <<>>
    /\ op = "none"
    /\ args = NoArgs
    /\ grown = "none"
    /\ unfreed = 0
    /\ scissor = NoScissor
    /\ gl_calls = NoCalls
    /\ result = Void
    /\ drawn = <<>>
    /\ pushed = <<>>

\* what a call that is no draw records: its name and its status
Outcome(name, status, tiles) ==
    /\ op' = name
    /\ result' = status
    /\ drawn' = tiles
    /\ gl_calls' = NoCalls
    /\ unfreed' = 0
    /\ UNCHANGED scissor

\* the outcome of a call that is no push
Returns(name, status, tiles) ==
    /\ Outcome(name, status, tiles)
    /\ args' = NoArgs
    /\ grown' = "none"

\* the outcome of a creation that fails after it has allocated: alloc tells
\* whether it was the malloc of the tile buffer that failed, blocks how many
\* blocks it leaves allocated with no owner
Leaves(name, status, alloc, blocks) ==
    /\ op' = name
    /\ result' = status
    /\ drawn' = <<>>
    /\ gl_calls' = NoCalls
    /\ args' = NoArgs
    /\ grown' = alloc
    /\ unfreed' = blocks
    /\ UNCHANGED scissor

\* a call that fails before it touches the terminal
Fails(name, status) ==
    /\ Returns(name, status, <<>>)
    /\ UNCHANGED <<term, sizing, buffer, glyph_count, gpu>>

\* what a push handed a null handle can come to: it reads a field through the
\* handle, so the call faults and no status reaches the caller, or it goes on
\* with what it read and answers as if it had worked
Dereferenced == {Indeterminate, RLH_RESULT_OK}

NullHandle(name) ==
    /\ \E status \in Dereferenced : Outcome(name, status, <<>>)
    /\ grown' = "none"
    /\ UNCHANGED <<buffer, vertex_data_changed>>

IsV0 == version = "v0"
IsV1 == version = "v1"
IsV2 == version = "v2"

----------------------------------------------------------------------------
(* Faulty variants of three operations.  A property that is meant to pin   *)
(* an operation down must fail when the variant stands in for it.          *)

\* a reserve that gives up the old block when realloc fails
ReserveLosingData(realloc_ok) ==
    IF TileDataCount = TileDataCapacity
    THEN IF realloc_ok
         THEN [ ok |-> TRUE, realloc |-> "ok",
                capacity |-> TileDataCapacity * 2,
                data |-> Realloc(TileData, TileDataCapacity * 2) ]
         ELSE [ ok |-> FALSE, realloc |-> "failed", capacity |-> 0, data |-> <<>> ]
    ELSE [ ok |-> TRUE, realloc |-> "none", capacity |-> TileDataCapacity,
           data |-> TileData ]

\* a reserve that grows by one slot
ReserveOneMore(realloc_ok) ==
    IF TileDataCount < TileDataCapacity
    THEN [ ok |-> TRUE, realloc |-> "none", capacity |-> TileDataCapacity,
           data |-> TileData ]
    ELSE IF realloc_ok
    THEN [ ok |-> TRUE, realloc |-> "ok", capacity |-> TileDataCapacity + 1,
           data |-> Realloc(TileData, TileDataCapacity + 1) ]
    ELSE [ ok |-> FALSE, realloc |-> "failed", capacity |-> TileDataCapacity,
           data |-> TileData ]

\* a draw that clears whatever the configuration
UploadDrawAndClear(clears) ==
    [ status |-> RLH_RESULT_OK,
      tiles |-> LivePrefix(TileData, TileDataCount),
      count |-> 0,
      data |-> Dead(TileData),
      gl |-> <<>>,
      changed |-> vertex_data_changed,
      elements |-> element_glyph_count,
      indices |-> element_data,
      calls |-> [glBufferData |-> 1, glDraw |-> <<TileDataCount * RLH_VERTICES_PER_TILE>>] ]

----------------------------------------------------------------------------
(* v1: src/include/roguelike.h *)

\* a creation that reserves one slot more than the tile area
CreateTermOneSlotMore(name, pixel_width, pixel_height, pixel_scale, tile_width, tile_height, floor_pixels_to_tiles, term_malloc, data_malloc) ==
    LET tiles_wide == pixel_width \div (tile_width * pixel_scale)
        tiles_tall == pixel_height \div (tile_height * pixel_scale)
    IN  IF ~term_malloc
        THEN /\ term' = "NULL"
             /\ Returns(name, RLH_RESULT_ERROR_OUT_OF_MEMORY, <<>>)
             /\ UNCHANGED <<sizing, buffer, glyph_count, gpu>>
        ELSE IF ~data_malloc
        THEN \* free(*term) and return: *term keeps the freed address
             /\ term' = "freed"
             /\ Leaves(name, RLH_RESULT_ERROR_OUT_OF_MEMORY, "failed", 0)
             /\ UNCHANGED <<sizing, buffer, glyph_count, gpu>>
        ELSE /\ term' = "live"
             /\ PixelScale' = pixel_scale
             /\ TilesWide' = tiles_wide
             /\ TilesTall' = tiles_tall
             /\ TileWidth' = tile_width
             /\ TileHeight' = tile_height
             /\ PixelWidth' = IF floor_pixels_to_tiles
                              THEN tiles_wide * tile_width * pixel_scale
                              ELSE pixel_width
             /\ PixelHeight' = IF floor_pixels_to_tiles
                               THEN tiles_tall * tile_height * pixel_scale
                               ELSE pixel_height
             /\ TileDataCapacity' = tiles_wide * tiles_tall + 1
             /\ TileData' = Realloc(<<>>, tiles_wide * tiles_tall + 1)
             /\ TileDataCount' = 0
             /\ pushed' = <<>>
             /\ Returns(name, RLH_RESULT_OK, <<>>)
             /\ UNCHANGED <<glyph_count, gpu>>

\* the body both create functions share, after the argument checks:
\* malloc of the struct, the sizing, malloc of the tile data.
\* The tile counts are float quotients converted to size_t.
CreateTerm(name, pixel_width, pixel_height, pixel_scale, tile_width, tile_height, floor_pixels_to_tiles, term_malloc, data_malloc) ==
    LET tiles_wide == pixel_width \div (tile_width * pixel_scale)
        tiles_tall == pixel_height \div (tile_height * pixel_scale)
    IN  IF ~term_malloc
        THEN /\ term' = "NULL"
             /\ Returns(name, RLH_RESULT_ERROR_OUT_OF_MEMORY, <<>>)
             /\ UNCHANGED <<sizing, buffer, glyph_count, gpu>>
        ELSE IF ~data_malloc
        THEN \* free(*term) and return: *term keeps the freed address
             /\ term' = "freed"
             /\ Leaves(name, RLH_RESULT_ERROR_OUT_OF_MEMORY, "failed", 0)
             /\ UNCHANGED <<sizing, buffer, glyph_count, gpu>>
        ELSE /\ term' = "live"
             /\ PixelScale' = pixel_scale
             /\ TilesWide' = tiles_wide
             /\ TilesTall' = tiles_tall
             /\ TileWidth' = tile_width
             /\ TileHeight' = tile_height
             /\ PixelWidth' = IF floor_pixels_to_tiles
                              THEN tiles_wide * tile_width * pixel_scale
                              ELSE pixel_width
             /\ PixelHeight' = IF floor_pixels_to_tiles
                               THEN tiles_tall * tile_height * pixel_scale
                               ELSE pixel_height
             /\ TileDataCapacity' = tiles_wide * tiles_tall
             /\ TileData' = Realloc(<<>>, tiles_wide * tiles_tall)
             /\ TileDataCount' = 0
             /\ pushed' = <<>>
             /\ Returns(name, RLH_RESULT_OK, <<>>)
             /\ UNCHANGED <<glyph_count, gpu>>

rlhTermCreatePixelDimensions ==
    /\ IsV1 /\ term = "NULL"
    /\ \E pixel_width \in PixelWidths, pixel_height \in PixelHeights, pixel_scale \in Scales,
          tile_width \in TileDims, tile_height \in TileDims,
          floor_pixels_to_tiles \in BOOLEAN, handle \in Pointers,
          term_malloc \in BOOLEAN, data_malloc \in BOOLEAN :
        IF handle = "NULL"
        THEN Fails("rlhTermCreatePixelDimensions", RLH_RESULT_ERROR_NULL_ARGUMENT)
        ELSE IF pixel_width <= 0 \/ pixel_height <= 0 \/ pixel_scale <= 0
                \/ tile_width <= 0 \/ tile_height <= 0
        THEN Fails("rlhTermCreatePixelDimensions", RLH_RESULT_ERROR_INVALID_VALUE)
        ELSE CreateTerm("rlhTermCreatePixelDimensions", pixel_width, pixel_height,
                        pixel_scale, tile_width, tile_height, floor_pixels_to_tiles,
                        term_malloc, data_malloc)
    /\ UNCHANGED <<version, retained>>

\* one call of rlhTermCreateTileDimensions
CreateTileDimensionsCall(tiles_wide, tiles_tall, pixel_scale, tile_width, tile_height, handle, term_malloc, data_malloc) ==
    IF handle = "NULL"
    THEN Fails("rlhTermCreateTileDimensions", RLH_RESULT_ERROR_NULL_ARGUMENT)
    ELSE IF tiles_wide <= 0 \/ tiles_tall <= 0 \/ pixel_scale <= 0
            \/ tile_width <= 0 \/ tile_height <= 0
    THEN Fails("rlhTermCreateTileDimensions", RLH_RESULT_ERROR_INVALID_VALUE)
    ELSE CreateTerm("rlhTermCreateTileDimensions",
                    tiles_wide * tile_width * pixel_scale,
                    tiles_tall * tile_height * pixel_scale,
                    pixel_scale, tile_width, tile_height, FALSE,
                    term_malloc, data_malloc)

rlhTermCreateTileDimensions ==
    /\ IsV1 /\ term = "NULL"
    /\ \E tiles_wide \in TilesWideArgs, tiles_tall \in TilesTallArgs, pixel_scale \in Scales,
          tile_width \in TileDims, tile_height \in TileDims, handle \in Pointers,
          term_malloc \in BOOLEAN, data_malloc \in BOOLEAN :
        CreateTileDimensionsCall(tiles_wide, tiles_tall, pixel_scale, tile_width, tile_height, handle, term_malloc, data_malloc)
    /\ UNCHANGED <<version, retained>>

rlhTermDestroy ==
    /\ IsV1 /\ term \in {"NULL", "live"}
    /\ term' = IF term = "NULL" THEN "NULL" ELSE "freed"
    /\ Returns("rlhTermDestroy", Void, <<>>)
    /\ UNCHANGED <<version, retained, sizing, buffer, glyph_count, gpu>>

\* a clear that gives the storage back
CountResetReleasing ==
    /\ TileDataCount' = 0
    /\ TileDataCapacity' = 0
    /\ TileData' = <<>>
    /\ gl_vertex_buffer' = <<>>
    /\ pushed' = <<>>
    /\ UNCHANGED <<vertex_data_changed, element_glyph_count, element_data>>

\* a clear that gives half of the storage back
CountResetShrinking ==
    /\ TileDataCount' = 0
    /\ TileDataCapacity' = TileDataCapacity \div 2
    /\ TileData' = Realloc(Dead(TileData), TileDataCapacity \div 2)
    /\ gl_vertex_buffer' = <<>>
    /\ pushed' = <<>>
    /\ UNCHANGED <<vertex_data_changed, element_glyph_count, element_data>>

\* the count set to 0: what clear, and a resize, leave of the tile batch
CountReset ==
    /\ TileDataCount' = 0
    /\ TileData' = Dead(TileData)
    /\ gl_vertex_buffer' = <<>>
    /\ pushed' = <<>>
    /\ UNCHANGED <<TileDataCapacity, vertex_data_changed, element_glyph_count, element_data>>

rlhTermClearTileData ==
    /\ IsV1 /\ term \in {"NULL", "live"}
    /\ IF term = "NULL"
       THEN Fails("rlhTermClearTileData", RLH_RESULT_ERROR_NULL_ARGUMENT)
       ELSE /\ CountReset
            /\ Returns("rlhTermClearTileData", RLH_RESULT_OK, <<>>)
            /\ UNCHANGED <<term, sizing, glyph_count>>
    /\ UNCHANGED <<version, retained>>

\* the count query: a size_t, 0 for a null handle
rlhTermGetTileCount ==
    /\ IsV1 /\ term \in {"NULL", "live"}
    /\ Fails("rlhTermGetTileCount", IF term = "NULL" THEN 0 ELSE TileDataCount)
    /\ UNCHANGED <<version, retained>>

\* the resize body both resize functions share, after the argument checks
ResizeTerm(name, pixel_width, pixel_height, pixel_scale, tile_width, tile_height, floor_pixels_to_tiles) ==
    LET tiles_wide == pixel_width \div (tile_width * pixel_scale)
        tiles_tall == pixel_height \div (tile_height * pixel_scale)
    IN  /\ PixelScale' = pixel_scale
        /\ TilesWide' = tiles_wide
        /\ TilesTall' = tiles_tall
        /\ TileWidth' = tile_width
        /\ TileHeight' = tile_height
        /\ PixelWidth' = IF floor_pixels_to_tiles
                         THEN tiles_wide * tile_width * pixel_scale
                         ELSE pixel_width
        /\ PixelHeight' = IF floor_pixels_to_tiles
                          THEN tiles_tall * tile_height * pixel_scale
                          ELSE pixel_height
        \* clear tile data because it may no longer fit
        /\ CountReset
        /\ Returns(name, RLH_RESULT_OK, <<>>)
        /\ UNCHANGED <<term, glyph_count>>

rlhTermResizePixelDimensions ==
    /\ IsV1 /\ term \in {"NULL", "live"}
    /\ \E pixel_width \in PixelWidths, pixel_height \in PixelHeights, pixel_scale \in Scales,
          tile_width \in TileDims, tile_height \in TileDims,
          floor_pixels_to_tiles \in BOOLEAN :
        IF term = "NULL"
        THEN Fails("rlhTermResizePixelDimensions", RLH_RESULT_ERROR_NULL_ARGUMENT)
        ELSE IF pixel_width <= 0 \/ pixel_height <= 0 \/ pixel_scale <= 0
                \/ tile_width <= 0 \/ tile_height <= 0
        THEN Fails("rlhTermResizePixelDimensions", RLH_RESULT_ERROR_INVALID_VALUE)
        ELSE ResizeTerm("rlhTermResizePixelDimensions", pixel_width, pixel_height,
                        pixel_scale, tile_width, tile_height, floor_pixels_to_tiles)
    /\ UNCHANGED <<version, retained>>

rlhTermResizeTileDimensions ==
    /\ IsV1 /\ term \in {"NULL", "live"}
    /\ \E tiles_wide \in TilesWideArgs, tiles_tall \in TilesTallArgs, pixel_scale \in Scales,
          tile_width \in TileDims, tile_height \in TileDims :
        IF term = "NULL"
        THEN Fails("rlhTermResizeTileDimensions", RLH_RESULT_ERROR_NULL_ARGUMENT)
        ELSE IF tiles_wide <= 0 \/ tiles_tall <= 0 \/ pixel_scale <= 0
                \/ tile_width <= 0 \/ tile_height <= 0
        THEN Fails("rlhTermResizeTileDimensions", RLH_RESULT_ERROR_INVALID_VALUE)
        ELSE ResizeTerm("rlhTermResizeTileDimensions",
                        tiles_wide * tile_width * pixel_scale,
                        tiles_tall * tile_height * pixel_scale,
                        pixel_scale, tile_width, tile_height, FALSE)
    /\ UNCHANGED <<version, retained>>

\* realloc_ok: whether realloc returns a non-null pointer. For a request of 0
\* bytes (capacity 0) both answers are ones a C library gives.
_rlhTermTryReserve(realloc_ok) ==
    IF TileDataCount = TileDataCapacity
    THEN IF realloc_ok
         THEN [ ok |-> TRUE, realloc |-> "ok",
                capacity |-> TileDataCapacity * 2,
                data |-> Realloc(TileData, TileDataCapacity * 2) ]
         ELSE [ ok |-> FALSE, realloc |-> "failed",
                capacity |-> TileDataCapacity, data |-> TileData ]
    ELSE [ ok |-> TRUE, realloc |-> "none", capacity |-> TileDataCapacity,
           data |-> TileData ]

\* the write of one record at index TileDataCount into the storage `data`;
\* a write past the end of the storage lands outside it
WriteTile(data, record) ==
    /\ TileData' = IF TileDataCount + 1 <= Len(data)
                   THEN [data EXCEPT ![TileDataCount + 1] = record]
                   ELSE data
    /\ TileDataCount' = TileDataCount + 1
    /\ pushed' = Append(pushed, record)

_rlhTermPushTile(data, pixel_x, pixel_y, pixel_w, pixel_h, glyph, fg, bg) ==
    WriteTile(data, TileRecord(pixel_x, pixel_y, pixel_w, pixel_h, glyph, fg, bg))

\* reserve, then push: the tail of every v1 push variant
ReserveAndPush(name, realloc_ok, pixel_x, pixel_y, pixel_w, pixel_h, look) ==
    LET r == _rlhTermTryReserve(realloc_ok)
    IN  IF ~r.ok
        THEN /\ grown' = r.realloc
             /\ TileDataCapacity' = r.capacity
             /\ TileData' = r.data
             /\ Outcome(name, RLH_RESULT_ERROR_OUT_OF_MEMORY, <<>>)
             /\ UNCHANGED <<TileDataCount, pushed>>
        ELSE /\ grown' = r.realloc
             /\ TileDataCapacity' = r.capacity
             /\ _rlhTermPushTile(r.data, pixel_x, pixel_y, pixel_w, pixel_h,
                                 look[1], look[2], look[3])
             /\ Outcome(name, RLH_RESULT_OK, <<>>)

Rejected(name) ==
    /\ Outcome(name, RLH_RESULT_TILE_OUT_OF_TERMINAL, <<>>)
    /\ grown' = "none"
    /\ UNCHANGED buffer

\* what no push of v0 and v1 touches
PushFrame == <<version, retained, term, sizing, glyph_count, gpu>>

rlhTermPushFillTile ==
    /\ IsV1 /\ term \in {"NULL", "live"} /\ TileDataCount < MaxTiles
    /\ \E look \in OneLook, realloc_ok \in BOOLEAN :
        /\ args' = [glyph |-> look[1]]
        /\ IF term = "NULL"
           THEN NullHandle("rlhTermPushFillTile")
           ELSE
           ReserveAndPush("rlhTermPushFillTile", realloc_ok, 0, 0, PixelWidth, PixelHeight, look)
    /\ UNCHANGED PushFrame

\* one call of rlhTermPushTileGrid at a grid cell
PushTileGridCall(cell, look, realloc_ok) ==
    /\ args' = [grid_x |-> cell[1], grid_y |-> cell[2], glyph |-> look[1]]
    /\ IF term = "NULL"
       THEN NullHandle("rlhTermPushTileGrid")
       ELSE
       LET grid_x == cell[1]
           grid_y == cell[2]
       IN  IF grid_x < 0 \/ grid_y < 0 \/ grid_x > TilesWide \/ grid_y > TilesTall
           THEN Rejected("rlhTermPushTileGrid")
           ELSE ReserveAndPush("rlhTermPushTileGrid", realloc_ok,
                               grid_x * TileWidth, grid_y * TileHeight,
                               TileWidth, TileHeight, look)

rlhTermPushTileGrid ==
    /\ IsV1 /\ term \in {"NULL", "live"} /\ TileDataCount < MaxTiles
    /\ \E cell \in GridCells, look \in OneLook, realloc_ok \in BOOLEAN :
        PushTileGridCall(cell, look, realloc_ok)
    /\ UNCHANGED PushFrame

\* one call of rlhTermPushTileGridSized at a grid cell with a size
PushTileGridSizedCall(cell, size, look, realloc_ok) ==
    /\ args' = [grid_x |-> cell[1], grid_y |-> cell[2], tile_pixel_width |-> size[1],
                tile_pixel_height |-> size[2], glyph |-> look[1]]
    /\ IF term = "NULL"
       THEN NullHandle("rlhTermPushTileGridSized")
       ELSE
       LET grid_x == cell[1]
           grid_y == cell[2]
           tile_pixel_width == size[1]
           tile_pixel_height == size[2]
       IN  IF grid_x < 0 \/ grid_y < 0 \/ grid_x > TilesWide \/ grid_y > TilesTall
           THEN Rejected("rlhTermPushTileGridSized")
           ELSE IF tile_pixel_width <= 0 \/ tile_pixel_height <= 0
                   \/ tile_pixel_width > RLH_MAX_TILE_SIZE
                   \/ tile_pixel_height > RLH_MAX_TILE_SIZE
           THEN Rejected("rlhTermPushTileGridSized")
           ELSE ReserveAndPush("rlhTermPushTileGridSized", realloc_ok,
                               grid_x * TileWidth, grid_y * TileHeight,
                               tile_pixel_width, tile_pixel_height, look)

rlhTermPushTileGridSized ==
    /\ IsV1 /\ term \in {"NULL", "live"} /\ TileDataCount < MaxTiles
    /\ \E cell \in GridCells : \E size \in TileSizesAt(cell), look \in OneLook, realloc_ok \in BOOLEAN :
        PushTileGridSizedCall(cell, size, look, realloc_ok)
    /\ UNCHANGED PushFrame

rlhTermPushTileFree ==
    /\ IsV1 /\ term \in {"NULL", "live"} /\ TileDataCount < MaxTiles
    /\ \E pixel \in FreePixels, look \in OneLook, realloc_ok \in BOOLEAN :
        /\ args' = [screen_pixel_x |-> pixel[1], screen_pixel_y |-> pixel[2], glyph |-> look[1]]
        /\ IF term = "NULL"
           THEN NullHandle("rlhTermPushTileFree")
           ELSE
           LET screen_pixel_x == pixel[1]
               screen_pixel_y == pixel[2]
               negative_default_width == 0 - TileWidth
               negative_default_height == 0 - TileHeight
           IN  IF screen_pixel_x < negative_default_width
                  \/ screen_pixel_y < negative_default_height
                  \/ screen_pixel_x > TileWidth \/ screen_pixel_y > TileHeight
               THEN Rejected("rlhTermPushTileFree")
               ELSE ReserveAndPush("rlhTermPushTileFree", realloc_ok,
                                   screen_pixel_x, screen_pixel_y,
                                   TileWidth, TileHeight, look)
    /\ UNCHANGED PushFrame

\* one call of rlhTermPushTileFreeSized at a pixel position with a size
PushTileFreeSizedCall(pixel, size, look, realloc_ok) ==
    /\ args' = [screen_pixel_x |-> pixel[1], screen_pixel_y |-> pixel[2],
                tile_pixel_width |-> size[1], tile_pixel_height |-> size[2],
                glyph |-> look[1]]
    /\ IF term = "NULL"
       THEN NullHandle("rlhTermPushTileFreeSized")
       ELSE
       LET screen_pixel_x == pixel[1]
           screen_pixel_y == pixel[2]
           tile_pixel_width == size[1]
           tile_pixel_height == size[2]
       IN  IF screen_pixel_x < 0 - tile_pixel_width
              \/ screen_pixel_y < 0 - tile_pixel_height
              \/ screen_pixel_x > PixelWidth \/ screen_pixel_y > PixelHeight
           THEN Rejected("rlhTermPushTileFreeSized")
           ELSE IF tile_pixel_width <= 0 \/ tile_pixel_height <= 0
                   \/ tile_pixel_width > RLH_MAX_TILE_SIZE
                   \/ tile_pixel_height > RLH_MAX_TILE_SIZE
           THEN Rejected("rlhTermPushTileFreeSized")
           ELSE ReserveAndPush("rlhTermPushTileFreeSized", realloc_ok,
                               screen_pixel_x, screen_pixel_y,
                               tile_pixel_width, tile_pixel_height, look)

rlhTermPushTileFreeSized ==
    /\ IsV1 /\ term \in {"NULL", "live"} /\ TileDataCount < MaxTiles
    /\ \E pixel \in FreePixels : \E size \in TileSizesAt(pixel), look \in OneLook, realloc_ok \in BOOLEAN :
        PushTileFreeSizedCall(pixel, size, look, realloc_ok)
    /\ UNCHANGED PushFrame

\* a draw that leaves the tile batch as it is
Untouched(status) ==
    [ status |-> status, tiles |-> <<>>, count |-> TileDataCount, data |-> TileData,
      gl |-> gl_vertex_buffer, changed |-> vertex_data_changed,
      elements |-> element_glyph_count, indices |-> element_data,
      calls |-> NoCalls ]

\* a draw of v0 and v1 with count > 0: glBufferData(count * 18 bytes of
\* TileData) into DataBUF, glDrawArrays(GL_TRIANGLES, 0, count * 6) over
\* DataBUF, then the clear if `clears`
UploadAndDraw(clears) ==
    LET uploaded == LivePrefix(TileData, TileDataCount)
    IN  [ status |-> RLH_RESULT_OK,
          tiles |-> LivePrefix(uploaded, TileDataCount),
          count |-> IF clears THEN 0 ELSE TileDataCount,
          data |-> IF clears THEN Dead(TileData) ELSE TileData,
          gl |-> IF clears THEN <<>> ELSE uploaded,
          changed |-> vertex_data_changed,
          elements |-> element_glyph_count,
          indices |-> element_data,
          calls |-> [ glBufferData |-> 1,
                      glDraw |-> <<TileDataCount * RLH_VERTICES_PER_TILE>> ] ]

\* a draw that uploads and submits whatever the tile count
DrawWhateverCount(atlas, matrix_4x4) ==
    IF term = "NULL" \/ atlas = "NULL" \/ matrix_4x4 = "NULL"
    THEN Untouched(RLH_RESULT_ERROR_NULL_ARGUMENT)
    ELSE UploadAndDraw(~retained)

\* rlhTermDrawMatrix as a call: the status it returns and what it leaves behind
DrawMatrixCall(atlas, matrix_4x4) ==
    IF term = "NULL" \/ atlas = "NULL" \/ matrix_4x4 = "NULL"
    THEN Untouched(RLH_RESULT_ERROR_NULL_ARGUMENT)
    ELSE IF TileDataCount > 0
    THEN UploadAndDraw(~retained)
    ELSE Untouched(RLH_RESULT_OK)

\* what a draw call leaves: the state after the inner rlhTermDrawMatrix, and
\* the status the called function itself returns
Draws(name, d, status) ==
    /\ TileDataCount' = d.count
    /\ TileData' = d.data
    /\ gl_vertex_buffer' = d.gl
    /\ vertex_data_changed' = d.changed
    /\ element_glyph_count' = d.elements
    /\ element_data' = d.indices
    /\ pushed' = IF d.count = 0 THEN <<>> ELSE pushed
    /\ op' = name
    /\ result' = status
    /\ drawn' = d.tiles
    /\ gl_calls' = d.calls
    /\ unfreed' = 0
    /\ UNCHANGED scissor
    /\ grown' = "none"
    /\ UNCHANGED <<version, retained, term, sizing, TileDataCapacity, glyph_count>>

rlhTermDrawMatrix ==
    /\ IsV1 /\ term \in {"NULL", "live"}
    /\ \E atlas \in Pointers, matrix_4x4 \in Pointers :
        /\ args' = [atlas |-> atlas, matrix_4x4 |-> matrix_4x4]
        /\ LET d == DrawMatrixCall(atlas, matrix_4x4)
           IN  Draws("rlhTermDrawMatrix", d, d.status)

rlhTermDraw ==
    /\ IsV1 /\ term \in {"NULL", "live"}
    /\ \E atlas \in Pointers :
        /\ args' = [atlas |-> atlas]
        /\ IF term = "NULL" \/ atlas = "NULL"
           THEN Draws("rlhTermDraw", Untouched(RLH_RESULT_ERROR_NULL_ARGUMENT),
                      RLH_RESULT_ERROR_NULL_ARGUMENT)
           ELSE Draws("rlhTermDraw", DrawMatrixCall(atlas, "valid"), RLH_RESULT_OK)

rlhTermDrawTranslated ==
    /\ IsV1 /\ term \in {"NULL", "live"}
    /\ \E atlas \in Pointers :
        /\ args' = [atlas |-> atlas]
        /\ IF term = "NULL" \/ atlas = "NULL"
           THEN Draws("rlhTermDrawTranslated", Untouched(RLH_RESULT_ERROR_NULL_ARGUMENT),
                      RLH_RESULT_ERROR_NULL_ARGUMENT)
           ELSE Draws("rlhTermDrawTranslated", DrawMatrixCall(atlas, "valid"), RLH_RESULT_OK)

rlhTermDrawTransformed ==
    /\ IsV1 /\ term \in {"NULL", "live"}
    /\ \E atlas \in Pointers :
        /\ args' = [atlas |-> atlas]
        /\ IF term = "NULL" \/ atlas = "NULL"
           THEN Draws("rlhTermDrawTransformed", Untouched(RLH_RESULT_ERROR_NULL_ARGUMENT),
                      RLH_RESULT_ERROR_NULL_ARGUMENT)
           ELSE Draws("rlhTermDrawTransformed", DrawMatrixCall(atlas, "valid"), RLH_RESULT_OK)

rlhTermDrawCentered ==
    /\ IsV1 /\ term \in {"NULL", "live"}
    /\ \E atlas \in Pointers :
        /\ args' = [atlas |-> atlas]
        /\ IF term = "NULL" \/ atlas = "NULL"
           THEN Draws("rlhTermDrawCentered", Untouched(RLH_RESULT_ERROR_NULL_ARGUMENT),
                      RLH_RESULT_ERROR_NULL_ARGUMENT)
           ELSE \* rlhTermDrawTranslated, whose status is dropped
                Draws("rlhTermDrawCentered", DrawMatrixCall(atlas, "valid"), RLH_RESULT_OK)

----------------------------------------------------------------------------
(* v0: src/unnamed/part_001, lines 1..723.  No function checks its handle  *)
(* and none returns a status; the operations are offered on a live handle. *)

\* memset(term, 0, sizeof(rlhTerm_s))
ZeroedTerm ==
    /\ PixelWidth' = 0 /\ PixelHeight' = 0
    /\ TilesWide' = 0 /\ TilesTall' = 0
    /\ PixelScale' = 0
    /\ TileWidth' = 0 /\ TileHeight' = 0
    /\ TileDataCapacity' = 0
    /\ TileDataCount' = 0
    /\ TileData' = <<>>
    /\ glyph_count' = 0
    /\ gl_vertex_buffer' = <<>>
    /\ pushed' = <<>>
    /\ UNCHANGED <<vertex_data_changed, element_glyph_count, element_data>>

\* ConsolePixelWidth and ConsolePixelHeight as create and the three resizes
\* compute them (a float product converted to size_t)
ConsolePixels(tiles_wide, tiles_tall, tile_width, tile_height, pixel_scale) ==
    /\ PixelWidth' = tiles_wide * tile_width * pixel_scale
    /\ PixelHeight' = tiles_tall * tile_height * pixel_scale

rlhTermCreate_v0 ==
    /\ IsV0 /\ term = "NULL"
    /\ \E console_tiles_wide \in TilesWideArgs, console_tiles_tall \in TilesTallArgs,
          console_pixel_scale \in Scales,
          default_tile_pixel_width \in TileDims, default_tile_pixel_height \in TileDims,
          atlas_glyph_count \in GlyphCounts,
          term_malloc \in BOOLEAN, data_malloc \in BOOLEAN :
        IF ~term_malloc
        THEN Fails("rlhTermCreate", Void)
        ELSE IF ~data_malloc
        THEN \* the zeroed struct is returned as the terminal
             /\ term' = "live"
             /\ ZeroedTerm
             /\ Leaves("rlhTermCreate", Void, "failed", 0)
        ELSE /\ term' = "live"
             /\ PixelScale' = console_pixel_scale
             /\ TilesWide' = console_tiles_wide
             /\ TilesTall' = console_tiles_tall
             /\ TileWidth' = default_tile_pixel_width
             /\ TileHeight' = default_tile_pixel_height
             /\ ConsolePixels(console_tiles_wide, console_tiles_tall,
                              default_tile_pixel_width, default_tile_pixel_height,
                              console_pixel_scale)
             /\ TileDataCapacity' = console_tiles_wide * console_tiles_tall
             /\ TileData' = Realloc(<<>>, console_tiles_wide * console_tiles_tall)
             /\ TileDataCount' = 0
             /\ glyph_count' = atlas_glyph_count
             /\ pushed' = <<>>
             /\ Returns("rlhTermCreate", Void, <<>>)
             /\ UNCHANGED gpu
    /\ UNCHANGED <<version, retained>>

\* frees Data, deletes the GL objects, zeroes the struct; the struct itself
\* is not freed
rlhTermDestroy_v0 ==
    /\ IsV0 /\ term = "live"
    /\ term' = "destroyed"
    /\ ZeroedTerm
    /\ Returns("rlhTermDestroy", Void, <<>>)
    /\ UNCHANGED <<version, retained>>

rlhTermResizeConsole ==
    /\ IsV0 /\ term = "live"
    /\ \E console_tiles_wide \in TilesWideArgs, console_tiles_tall \in TilesTallArgs :
        /\ TilesWide' = console_tiles_wide
        /\ TilesTall' = console_tiles_tall
        /\ ConsolePixels(console_tiles_wide, console_tiles_tall, TileWidth, TileHeight,
                         PixelScale)
    /\ CountReset
    /\ Returns("rlhTermResizeConsole", Void, <<>>)
    /\ UNCHANGED <<version, retained, term, PixelScale, TileWidth, TileHeight, glyph_count>>

rlhTermResizePixelScale ==
    /\ IsV0 /\ term = "live"
    /\ \E console_pixel_scale \in Scales :
        /\ PixelScale' = console_pixel_scale
        /\ ConsolePixels(TilesWide, TilesTall, TileWidth, TileHeight, console_pixel_scale)
    /\ Returns("rlhTermResizePixelScale", Void, <<>>)
    /\ UNCHANGED <<version, retained, term, TilesWide, TilesTall, TileWidth, TileHeight,
                   buffer, glyph_count, gpu>>

rlhTermResizeTiles ==
    /\ IsV0 /\ term = "live"
    /\ \E default_tile_width \in TileDims, default_tile_height \in TileDims :
        /\ TileWidth' = default_tile_width
        /\ TileHeight' = default_tile_height
        /\ ConsolePixels(TilesWide, TilesTall, default_tile_width, default_tile_height,
                         PixelScale)
    /\ CountReset
    /\ Returns("rlhTermResizeTiles", Void, <<>>)
    /\ UNCHANGED <<version, retained, term, TilesWide, TilesTall, PixelScale, glyph_count>>

\* replaces AtlasTEX and the contents of FontmapBUF; AtlasGlyphCount and the
\* tile batch are not assigned
rlhTermChangeAtlas ==
    /\ IsV0 /\ term = "live"
    /\ \E atlas_glyph_count \in GlyphCounts :
        Returns("rlhTermChangeAtlas", Void, <<>>)
    /\ UNCHANGED <<version, retained, term, sizing, buffer, glyph_count, gpu>>

rlhTermClear ==
    /\ IsV0 /\ term = "live"
    /\ CountReset
    /\ Returns("rlhTermClear", Void, <<>>)
    /\ UNCHANGED <<version, retained, term, sizing, glyph_count>>

_rlhTermTryReserve_v0(realloc_ok) ==
    IF TileDataCount = TileDataCapacity
    THEN IF realloc_ok
         THEN [ ok |-> TRUE, realloc |-> "ok",
                capacity |-> TileDataCapacity * 2,
                data |-> Realloc(TileData, TileDataCapacity * 2) ]
         ELSE [ ok |-> FALSE, realloc |-> "failed",
                capacity |-> TileDataCapacity, data |-> TileData ]
    ELSE [ ok |-> TRUE, realloc |-> "none", capacity |-> TileDataCapacity,
           data |-> TileData ]

_rlhTermPushTile_v0(data, pixel_x, pixel_y, pixel_w, pixel_h, glyph, fg, bg) ==
    WriteTile(data, TileRecord(pixel_x, pixel_y, pixel_w, pixel_h, glyph, fg, bg))

\* a v0 push that returns before it writes
Returned_v0(name) ==
    /\ Outcome(name, Void, <<>>)
    /\ grown' = "none"
    /\ UNCHANGED buffer

\* reserve, then push: the tail of every v0 push variant
ReserveAndPush_v0(name, realloc_ok, pixel_x, pixel_y, pixel_w, pixel_h, look) ==
    LET r == _rlhTermTryReserve_v0(realloc_ok)
    IN  IF ~r.ok
        THEN /\ grown' = r.realloc
             /\ TileDataCapacity' = r.capacity
             /\ TileData' = r.data
             /\ Outcome(name, Void, <<>>)
             /\ UNCHANGED <<TileDataCount, pushed>>
        ELSE /\ grown' = r.realloc
             /\ TileDataCapacity' = r.capacity
             /\ _rlhTermPushTile_v0(r.data, pixel_x, pixel_y, pixel_w, pixel_h,
                                    look[1], look[2], look[3])
             /\ Outcome(name, Void, <<>>)

rlhTermPushTileGrid_v0 ==
    /\ IsV0 /\ term \in {"NULL", "live"} /\ TileDataCount < MaxTiles
    /\ \E cell \in GridCells, look \in OneLook, realloc_ok \in BOOLEAN :
        /\ args' = [grid_x |-> cell[1], grid_y |-> cell[2], glyph |-> look[1]]
        /\ IF term = "NULL"
           THEN NullHandle("rlhTermPushTileGrid")
           ELSE
           LET grid_x == cell[1]
               grid_y == cell[2]
           IN  IF grid_x < 0 \/ grid_y < 0 \/ grid_x > TilesWide \/ grid_y > TilesTall
               THEN Returned_v0("rlhTermPushTileGrid")
               ELSE ReserveAndPush_v0("rlhTermPushTileGrid", realloc_ok,
                                      grid_x * TileWidth, grid_y * TileHeight,
                                      TileWidth, TileHeight, look)
    /\ UNCHANGED PushFrame

\* one call of rlhTermPushTileGridSized at a grid cell with a size
PushTileGridSizedCall_v0(cell, size, look, realloc_ok) ==
    /\ args' = [grid_x |-> cell[1], grid_y |-> cell[2], tile_pixel_width |-> size[1],
                tile_pixel_height |-> size[2], glyph |-> look[1]]
    /\ IF term = "NULL"
       THEN NullHandle("rlhTermPushTileGridSized")
       ELSE
       LET grid_x == cell[1]
           grid_y == cell[2]
           tile_pixel_width == size[1]
           tile_pixel_height == size[2]
       IN  IF grid_x < 0 \/ grid_y < 0 \/ grid_x > TilesWide \/ grid_y > TilesTall
           THEN Returned_v0("rlhTermPushTileGridSized")
           ELSE IF tile_pixel_width <= 0 \/ tile_pixel_height <= 0
                   \/ tile_pixel_width > RLH_MAX_TILE_SIZE
                   \/ tile_pixel_height > RLH_MAX_TILE_SIZE
           THEN Returned_v0("rlhTermPushTileGridSized")
           ELSE ReserveAndPush_v0("rlhTermPushTileGridSized", realloc_ok,
                                  grid_x * TileWidth, grid_y * TileHeight,
                                  tile_pixel_width, tile_pixel_height, look)

rlhTermPushTileGridSized_v0 ==
    /\ IsV0 /\ term \in {"NULL", "live"} /\ TileDataCount < MaxTiles
    /\ \E cell \in GridCells : \E size \in TileSizesAt(cell), look \in OneLook, realloc_ok \in BOOLEAN :
        PushTileGridSizedCall_v0(cell, size, look, realloc_ok)
    /\ UNCHANGED PushFrame

rlhTermPushTileFree_v0 ==
    /\ IsV0 /\ term \in {"NULL", "live"} /\ TileDataCount < MaxTiles
    /\ \E pixel \in FreePixels, look \in OneLook, realloc_ok \in BOOLEAN :
        /\ args' = [screen_pixel_x |-> pixel[1], screen_pixel_y |-> pixel[2], glyph |-> look[1]]
        /\ IF term = "NULL"
           THEN NullHandle("rlhTermPushTileFree")
           ELSE
           LET screen_pixel_x == pixel[1]
               screen_pixel_y == pixel[2]
               negative_default_width == 0 - TileWidth
               negative_default_height == 0 - TileHeight
           IN  IF screen_pixel_x < negative_default_width
                  \/ screen_pixel_y < negative_default_height
                  \/ screen_pixel_x > PixelWidth \/ screen_pixel_y > PixelHeight
               THEN Returned_v0("rlhTermPushTileFree")
               ELSE ReserveAndPush_v0("rlhTermPushTileFree", realloc_ok,
                                      screen_pixel_x, screen_pixel_y,
                                      TileWidth, TileHeight, look)
    /\ UNCHANGED PushFrame

\* one call of rlhTermPushTileFreeSized at a pixel position with a size
PushTileFreeSizedCall_v0(pixel, size, look, realloc_ok) ==
    /\ args' = [screen_pixel_x |-> pixel[1], screen_pixel_y |-> pixel[2],
                tile_pixel_width |-> size[1], tile_pixel_height |-> size[2],
                glyph |-> look[1]]
    /\ IF term = "NULL"
       THEN NullHandle("rlhTermPushTileFreeSized")
       ELSE
       LET screen_pixel_x == pixel[1]
           screen_pixel_y == pixel[2]
           tile_pixel_width == size[1]
           tile_pixel_height == size[2]
       IN  IF screen_pixel_x < 0 - tile_pixel_width
              \/ screen_pixel_y < 0 - tile_pixel_height
              \/ screen_pixel_x > PixelWidth \/ screen_pixel_y > PixelHeight
           THEN Returned_v0("rlhTermPushTileFreeSized")
           ELSE IF tile_pixel_width <= 0 \/ tile_pixel_height <= 0
                   \/ tile_pixel_width > RLH_MAX_TILE_SIZE
                   \/ tile_pixel_height > RLH_MAX_TILE_SIZE
           THEN Returned_v0("rlhTermPushTileFreeSized")
           ELSE ReserveAndPush_v0("rlhTermPushTileFreeSized", realloc_ok,
                                  screen_pixel_x, screen_pixel_y,
                                  tile_pixel_width, tile_pixel_height, look)

rlhTermPushTileFreeSized_v0 ==
    /\ IsV0 /\ term \in {"NULL", "live"} /\ TileDataCount < MaxTiles
    /\ \E pixel \in FreePixels : \E size \in TileSizesAt(pixel), look \in OneLook, realloc_ok \in BOOLEAN :
        PushTileFreeSizedCall_v0(pixel, size, look, realloc_ok)
    /\ UNCHANGED PushFrame

\* the v0 rlhTermDrawMatrix as a call: it never clears
DrawMatrixCall_v0 ==
    IF TileDataCount > 0
    THEN UploadAndDraw(FALSE)
    ELSE Untouched(Void)

\* glUniformMatrix4fv reading its 16 floats through a null matrix_4x4, after
\* the upload: the call faults there, or the driver goes on and the draw is
\* submitted
NullMatrixDraws ==
    { UploadAndDraw(FALSE),
      [ UploadAndDraw(FALSE) EXCEPT !.status = Indeterminate, !.tiles = <<>>,
                                    !.calls = [glBufferData |-> 1, glDraw |-> <<>>] ] }

rlhTermDrawMatrix_v0 ==
    /\ IsV0 /\ term = "live"
    /\ \E matrix_4x4 \in Pointers :
        /\ args' = [matrix_4x4 |-> matrix_4x4]
        /\ IF matrix_4x4 = "NULL" /\ TileDataCount > 0
           THEN \E d \in NullMatrixDraws :
                    Draws("rlhTermDrawMatrix", d,
                          IF d.status = Indeterminate THEN Indeterminate ELSE Void)
           ELSE Draws("rlhTermDrawMatrix", DrawMatrixCall_v0, Void)

rlhTermDraw_v0 ==
    /\ IsV0 /\ term = "live"
    /\ args' = NoArgs
    /\ Draws("rlhTermDraw", DrawMatrixCall_v0, Void)

rlhTermDrawTranslated_v0 ==
    /\ IsV0 /\ term = "live"
    /\ args' = NoArgs
    /\ Draws("rlhTermDrawTranslated", DrawMatrixCall_v0, Void)

rlhTermDrawTransformed_v0 ==
    /\ IsV0 /\ term = "live"
    /\ args' = NoArgs
    /\ Draws("rlhTermDrawTransformed", DrawMatrixCall_v0, Void)

----------------------------------------------------------------------------
(* v2: src/README.md (the v2.0.0 header) *)

\* a null pointer to an info structure
NullInfo == [null |-> TRUE]

\* the size_info and atlas_info structures the caller fills in
\* (the sizes asked for are square)
SizeInfos ==
    { size_info \in [ width : SizeExtents, height : SizeExtents, size_mode : SizeModes,
                      floor_pixels_to_tiles : BOOLEAN, pixel_scale : Scales,
                      tile_width : TileDims, tile_height : TileDims ] :
        size_info.width = size_info.height }
\* the size_info structures the caller resizes with: sizes in tiles, and the
\* invalid mode
ResizeInfos == { size_info \in SizeInfos : size_info.size_mode # RLH_SIZE_UNSCALED_PIXELS }
AtlasInfos == [ pixel_data : Pointers, glyph_count : GlyphCounts ]

_rlhSizeInfoCheck(size_info) ==
    IF size_info = NullInfo
    THEN RLH_RESULT_ERROR_NULL_ARGUMENT_v2
    ELSE IF size_info.width <= 0 \/ size_info.height <= 0
            \/ size_info.size_mode < RLH_SIZE_TILES
            \/ size_info.size_mode >= RLH_SIZE_MODE_COUNT
            \/ size_info.tile_width <= 0 \/ size_info.tile_height <= 0
    THEN RLH_RESULT_ERROR_INVALID_VALUE_v2
    ELSE RLH_RESULT_OK

\* the width, height, pages and color of the atlas are valid in every input
_rlhAtlasInfoCheck(atlas_info) ==
    IF atlas_info = NullInfo THEN RLH_RESULT_ERROR_NULL_ARGUMENT_v2
    ELSE IF atlas_info.pixel_data = "NULL" THEN RLH_RESULT_ERROR_NULL_ARGUMENT_v2
    ELSE IF atlas_info.glyph_count <= 0 THEN RLH_RESULT_ERROR_INVALID_VALUE_v2
    ELSE RLH_RESULT_OK

_rlhTermInfoCheck(term_info, size_info, atlas_info) ==
    IF term_info = "NULL"
    THEN RLH_RESULT_ERROR_NULL_ARGUMENT_v2
    ELSE IF _rlhSizeInfoCheck(size_info) # RLH_RESULT_OK
    THEN _rlhSizeInfoCheck(size_info)
    ELSE _rlhAtlasInfoCheck(atlas_info)

\* the unscaled pixel size of one axis, from the requested extent
UnscaledPixels(extent, tile_extent, size_info) ==
    LET floored(pixels) ==
            IF size_info.floor_pixels_to_tiles
            THEN pixels - (pixels % (tile_extent * size_info.pixel_scale))
            ELSE pixels
    IN  IF size_info.size_mode = RLH_SIZE_TILES
        THEN tile_extent * extent
        ELSE IF size_info.size_mode = RLH_SIZE_SCALED_PIXELS
        THEN floored(extent \div size_info.pixel_scale)
        ELSE floored(extent)

_rlhTermSetPixelSize(size_info) ==
    /\ PixelWidth' = UnscaledPixels(size_info.width, size_info.tile_width, size_info)
    /\ PixelHeight' = UnscaledPixels(size_info.height, size_info.tile_height, size_info)
    /\ PixelScale' = size_info.pixel_scale
    /\ TileWidth' = size_info.tile_width
    /\ TileHeight' = size_info.tile_height
    /\ TilesWide' = UnscaledPixels(size_info.width, size_info.tile_width, size_info)
                        \div size_info.tile_width
    /\ TilesTall' = UnscaledPixels(size_info.height, size_info.tile_height, size_info)
                        \div size_info.tile_height

\* realloc_ok: whether realloc of glyph_stpqp returns a non-null pointer
_rlhTermSetAtlas(atlas_info, realloc_ok) ==
    IF realloc_ok
    THEN [ status |-> RLH_RESULT_OK, glyph_count |-> atlas_info.glyph_count ]
    ELSE [ status |-> RLH_RESULT_ERROR_OUT_OF_MEMORY_v2, glyph_count |-> glyph_count ]

\* one call of rlhTermCreate
TermCreateCall(handle, term_info, size_info, atlas_info, term_malloc, data_malloc, realloc_ok) ==
    IF handle = "NULL"
    THEN Fails("rlhTermCreate", RLH_RESULT_ERROR_NULL_ARGUMENT_v2)
    ELSE IF _rlhTermInfoCheck(term_info, size_info, atlas_info) # RLH_RESULT_OK
    THEN Fails("rlhTermCreate", _rlhTermInfoCheck(term_info, size_info, atlas_info))
    ELSE IF ~term_malloc
    THEN Fails("rlhTermCreate", RLH_RESULT_ERROR_OUT_OF_MEMORY_v2)
    ELSE IF ~data_malloc
    THEN \* after a failed malloc of vertex_data the struct is freed; *term
         \* is not assigned
         /\ Leaves("rlhTermCreate", RLH_RESULT_ERROR_OUT_OF_MEMORY_v2, "failed", 0)
         /\ UNCHANGED <<term, sizing, buffer, glyph_count, gpu>>
    ELSE IF _rlhTermSetAtlas(atlas_info, realloc_ok).status # RLH_RESULT_OK
    THEN \* free(term_h) and return: vertex_data stays allocated, and
         \* nothing points to it
         /\ Leaves("rlhTermCreate", _rlhTermSetAtlas(atlas_info, realloc_ok).status,
                   "none", 1)
         /\ UNCHANGED <<term, sizing, buffer, glyph_count, gpu>>
    ELSE /\ term' = "live"
         /\ _rlhTermSetPixelSize(size_info)
         /\ TileDataCapacity' = TilesWide' * TilesTall'
         /\ TileData' = Realloc(<<>>, TilesWide' * TilesTall')
         /\ TileDataCount' = 0
         /\ glyph_count' = _rlhTermSetAtlas(atlas_info, realloc_ok).glyph_count
         /\ pushed' = <<>>
         /\ Returns("rlhTermCreate", RLH_RESULT_OK, <<>>)
         /\ UNCHANGED gpu

rlhTermCreate ==
    /\ IsV2 /\ term = "NULL"
    /\ \E handle \in Pointers, term_info \in Pointers,
          size_info \in SizeInfos \cup {NullInfo}, atlas_info \in AtlasInfos \cup {NullInfo},
          term_malloc \in BOOLEAN, data_malloc \in BOOLEAN, realloc_ok \in BOOLEAN :
        TermCreateCall(handle, term_info, size_info, atlas_info, term_malloc, data_malloc, realloc_ok)
    /\ UNCHANGED <<version, retained>>

rlhTermDestroy_v2 ==
    /\ IsV2 /\ term \in {"NULL", "live"}
    /\ term' = IF term = "NULL" THEN "NULL" ELSE "freed"
    /\ Returns("rlhTermDestroy", Void, <<>>)
    /\ UNCHANGED <<version, retained, sizing, buffer, glyph_count, gpu>>

rlhTermSetAtlas ==
    /\ IsV2 /\ term \in {"NULL", "live"}
    /\ \E atlas_info \in AtlasInfos \cup {NullInfo}, realloc_ok \in BOOLEAN :
        IF term = "NULL"
        THEN Fails("rlhTermSetAtlas", RLH_RESULT_ERROR_NULL_ARGUMENT_v2)
        ELSE IF _rlhAtlasInfoCheck(atlas_info) # RLH_RESULT_OK
        THEN Fails("rlhTermSetAtlas", _rlhAtlasInfoCheck(atlas_info))
        ELSE /\ glyph_count' = _rlhTermSetAtlas(atlas_info, realloc_ok).glyph_count
             /\ Returns("rlhTermSetAtlas", _rlhTermSetAtlas(atlas_info, realloc_ok).status,
                        <<>>)
             /\ UNCHANGED <<term, sizing, buffer, gpu>>
    /\ UNCHANGED <<version, retained>>

\* the function ends without a return statement after _rlhTermSetPixelSize:
\* the caller reads the return register, which may or may not hold 0
rlhTermSetSize ==
    /\ IsV2 /\ term \in {"NULL", "live"}
    /\ \E size_info \in ResizeInfos \cup {NullInfo}, status \in {RLH_RESULT_OK, Indeterminate} :
        IF term = "NULL" \/ size_info = NullInfo
        THEN Fails("rlhTermSetSize", RLH_RESULT_ERROR_NULL_ARGUMENT_v2)
        ELSE IF _rlhSizeInfoCheck(size_info) # RLH_RESULT_OK
        THEN Fails("rlhTermSetSize", _rlhSizeInfoCheck(size_info))
        ELSE /\ _rlhTermSetPixelSize(size_info)
             /\ Returns("rlhTermSetSize", status, <<>>)
             /\ UNCHANGED <<term, buffer, glyph_count, gpu>>
    /\ UNCHANGED <<version, retained>>

rlhTermClearTileData_v2 ==
    /\ IsV2 /\ term \in {"NULL", "live"}
    /\ IF term = "NULL"
       THEN Fails("rlhTermClearTileData", RLH_RESULT_ERROR_NULL_ARGUMENT_v2)
       ELSE /\ CountReset
            /\ Returns("rlhTermClearTileData", RLH_RESULT_OK, <<>>)
            /\ UNCHANGED <<term, sizing, glyph_count>>
    /\ UNCHANGED <<version, retained>>

\* the count query: an int, 0 for a null handle
rlhTermGetTileDataCount ==
    /\ IsV2 /\ term \in {"NULL", "live"}
    /\ Fails("rlhTermGetTileDataCount", IF term = "NULL" THEN 0 ELSE TileDataCount)
    /\ UNCHANGED <<version, retained>>

_rlhTermTryReserveVertexData(realloc_ok) ==
    IF TileDataCount < TileDataCapacity
    THEN [ ok |-> TRUE, realloc |-> "none", capacity |-> TileDataCapacity,
           data |-> TileData ]
    ELSE LET new_capacity == IF TileDataCapacity = 0
                             THEN FirstCapacity
                             ELSE TileDataCapacity * 2
         IN  IF realloc_ok
             THEN [ ok |-> TRUE, realloc |-> "ok", capacity |-> new_capacity,
                    data |-> Realloc(TileData, new_capacity) ]
             ELSE [ ok |-> FALSE, realloc |-> "failed",
                    capacity |-> TileDataCapacity, data |-> TileData ]

\* a < b where a is an int and b a size_t: a is converted to size_t, so a
\* negative a compares as a huge value
LessThanSizeT(a, b) == a >= 0 /\ a < b

\* the four vertices of a tile: the corners s, t (x axis) and p, q (y axis) as
\* fractions <<numerator, denominator>> of the unscaled pixel size, the atlas
\* coordinates of the glyph as read from glyph_stpqp, the colors
VertexRecord(pixel_x, pixel_y, pixel_w, pixel_h, glyph, fg, bg) ==
    [ s |-> <<pixel_x, PixelWidth>>,
      t |-> <<pixel_x + pixel_w, PixelWidth>>,
      p |-> <<pixel_y, PixelHeight>>,
      q |-> <<pixel_y + pixel_h, PixelHeight>>,
      atlas |-> IF glyph < glyph_count THEN [glyph |-> glyph] ELSE Garbage,
      fg |-> fg,
      bg |-> bg ]

\* a push that appends the tile and leaves the dirty flag as it was
PushTileKeepingFlag(data, pixel_x, pixel_y, pixel_w, pixel_h, glyph, fg, bg) ==
    IF glyph > glyph_count
    THEN /\ TileData' = data
         /\ UNCHANGED <<TileDataCount, pushed, vertex_data_changed>>
    ELSE IF ~ ( /\ pixel_x + pixel_w > 0
                /\ LessThanSizeT(pixel_x, PixelWidth)
                /\ pixel_y + pixel_h > 0
                /\ LessThanSizeT(pixel_y, PixelHeight) )
    THEN /\ TileData' = data
         /\ UNCHANGED <<TileDataCount, pushed, vertex_data_changed>>
    ELSE /\ WriteTile(data, VertexRecord(pixel_x, pixel_y, pixel_w, pixel_h, glyph, fg, bg))
         /\ UNCHANGED vertex_data_changed

_rlhTermPushTile_v2(data, pixel_x, pixel_y, pixel_w, pixel_h, glyph, fg, bg) ==
    IF glyph > glyph_count
    THEN /\ TileData' = data
         /\ UNCHANGED <<TileDataCount, pushed, vertex_data_changed>>
    ELSE IF ~ ( /\ pixel_x + pixel_w > 0
                /\ LessThanSizeT(pixel_x, PixelWidth)
                /\ pixel_y + pixel_h > 0
                /\ LessThanSizeT(pixel_y, PixelHeight) )
    THEN /\ TileData' = data
         /\ UNCHANGED <<TileDataCount, pushed, vertex_data_changed>>
    ELSE /\ WriteTile(data, VertexRecord(pixel_x, pixel_y, pixel_w, pixel_h, glyph, fg, bg))
         /\ vertex_data_changed' = TRUE

\* reserve, then push: the body of every v2 push variant
ReserveAndPush_v2(name, realloc_ok, pixel_x, pixel_y, pixel_w, pixel_h, look) ==
    LET r == _rlhTermTryReserveVertexData(realloc_ok)
    IN  IF ~r.ok
        THEN /\ grown' = r.realloc
             /\ TileDataCapacity' = r.capacity
             /\ TileData' = r.data
             /\ Outcome(name, RLH_RESULT_ERROR_OUT_OF_MEMORY_v2, <<>>)
             /\ UNCHANGED <<TileDataCount, pushed, vertex_data_changed>>
        ELSE /\ grown' = r.realloc
             /\ TileDataCapacity' = r.capacity
             /\ _rlhTermPushTile_v2(r.data, pixel_x, pixel_y, pixel_w, pixel_h,
                                    look[1], look[2], look[3])
             /\ Outcome(name, RLH_RESULT_OK, <<>>)

\* what no push of v2 touches
PushFrame_v2 == <<version, retained, term, sizing, glyph_count, gl_vertex_buffer,
                  element_glyph_count, element_data>>

\* one call of rlhTermPushFill
PushFillCall(look, realloc_ok) ==
    /\ args' = [glyph |-> look[1]]
    /\ IF term = "NULL"
       THEN NullHandle("rlhTermPushFill")
       ELSE
       ReserveAndPush_v2("rlhTermPushFill", realloc_ok, 0, 0, PixelWidth, PixelHeight, look)

rlhTermPushFill ==
    /\ IsV2 /\ term \in {"NULL", "live"} /\ TileDataCount < MaxTiles
    /\ \E look \in TileLooks, realloc_ok \in BOOLEAN :
        PushFillCall(look, realloc_ok)
    /\ UNCHANGED PushFrame_v2

\* one call of rlhTermPushGrid at a grid cell
PushGridCall(cell, look, realloc_ok) ==
    /\ args' = [grid_x |-> cell[1], grid_y |-> cell[2], glyph |-> look[1]]
    /\ IF term = "NULL"
       THEN NullHandle("rlhTermPushGrid")
       ELSE
       LET grid_x == cell[1]
           grid_y == cell[2]
           pixel_x == grid_x * TileWidth * PixelScale
           pixel_y == grid_y * TileHeight * PixelScale
       IN  ReserveAndPush_v2("rlhTermPushGrid", realloc_ok, pixel_x, pixel_y,
                             TileWidth * PixelScale, TileHeight * PixelScale, look)

rlhTermPushGrid ==
    /\ IsV2 /\ term \in {"NULL", "live"} /\ TileDataCount < MaxTiles
    /\ \E cell \in GridCells, look \in OneLook, realloc_ok \in BOOLEAN :
        PushGridCall(cell, look, realloc_ok)
    /\ UNCHANGED PushFrame_v2

rlhTermPushGridSized ==
    /\ IsV2 /\ term \in {"NULL", "live"} /\ TileDataCount < MaxTiles
    /\ \E cell \in GridCells : \E size \in TileSizesAt(cell), look \in OneLook, realloc_ok \in BOOLEAN :
        /\ args' = [grid_x |-> cell[1], grid_y |-> cell[2], tile_pixel_width |-> size[1],
                    tile_pixel_height |-> size[2], glyph |-> look[1]]
        /\ IF term = "NULL"
           THEN NullHandle("rlhTermPushGridSized")
           ELSE
           LET grid_x == cell[1]
               grid_y == cell[2]
               tile_pixel_width == size[1]
               tile_pixel_height == size[2]
               pixel_x == grid_x * TileWidth * PixelScale
               pixel_y == grid_y * TileHeight * PixelScale
               pixel_w_u == tile_pixel_width * PixelScale
               pixel_h_u == tile_pixel_height * PixelScale
           IN  ReserveAndPush_v2("rlhTermPushGridSized", realloc_ok, pixel_x, pixel_y,
                                 pixel_w_u, pixel_h_u, look)
    /\ UNCHANGED PushFrame_v2

rlhTermPushFree ==
    /\ IsV2 /\ term \in {"NULL", "live"} /\ TileDataCount < MaxTiles
    /\ \E pixel \in FreePixels, look \in OneLook, realloc_ok \in BOOLEAN :
        /\ args' = [screen_pixel_x |-> pixel[1], screen_pixel_y |-> pixel[2], glyph |-> look[1]]
        /\ IF term = "NULL"
           THEN NullHandle("rlhTermPushFree")
           ELSE
           LET screen_pixel_x == pixel[1]
               screen_pixel_y == pixel[2]
           IN  ReserveAndPush_v2("rlhTermPushFree", realloc_ok,
                                 screen_pixel_x * PixelScale, screen_pixel_y * PixelScale,
                                 TileWidth * PixelScale, TileHeight * PixelScale, look)
    /\ UNCHANGED PushFrame_v2

rlhTermPushFreeSized ==
    /\ IsV2 /\ term \in {"NULL", "live"} /\ TileDataCount < MaxTiles
    /\ \E pixel \in FreePixels : \E size \in TileSizesAt(pixel), look \in OneLook, realloc_ok \in BOOLEAN :
        /\ args' = [screen_pixel_x |-> pixel[1], screen_pixel_y |-> pixel[2],
                    tile_pixel_width |-> size[1], tile_pixel_height |-> size[2],
                    glyph |-> look[1]]
        /\ IF term = "NULL"
           THEN NullHandle("rlhTermPushFreeSized")
           ELSE
           LET screen_pixel_x == pixel[1]
               screen_pixel_y == pixel[2]
               tile_pixel_width == size[1]
               tile_pixel_height == size[2]
           IN  ReserveAndPush_v2("rlhTermPushFreeSized", realloc_ok,
                                 screen_pixel_x * PixelScale, screen_pixel_y * PixelScale,
                                 tile_pixel_width * PixelScale, tile_pixel_height * PixelScale,
                                 look)
    /\ UNCHANGED PushFrame_v2

_rlhGetElementCount(tile_count) == tile_count * RLH_ELEMENTS_PER_TILE

\* realloc_ok: whether realloc of element_data returns a non-null pointer
\* the six indices the loop of _rlhTermTryAppendElements writes for one tile
\* (0-based): vert0 = tile * RLH_VERTICES_PER_TILE, then vert0, vert0 + 1,
\* vert0 + 2, vert0 + 1, vert0 + 2, vert0 + 3
TileElements(tile) ==
    LET vert0 == tile * RLH_VERTICES_PER_TILE_v2
    IN  [ indices |-> <<vert0, vert0 + 1, vert0 + 2, vert0 + 1, vert0 + 2, vert0 + 3>> ]

\* the element data after realloc to tile_count tiles and the loop over the
\* tiles from `from` (0-based) up to tile_count
AppendedElements(from, tile_count) ==
    [ i \in 1..tile_count |->
        IF i - 1 >= from THEN TileElements(i - 1) ELSE Realloc(element_data, tile_count)[i] ]

_rlhTermTryAppendElements(realloc_ok) ==
    IF element_glyph_count >= TileDataCount
    THEN [ status |-> RLH_RESULT_OK, elements |-> element_glyph_count,
           indices |-> element_data ]
    ELSE IF ~realloc_ok
    THEN [ status |-> RLH_RESULT_ERROR_OUT_OF_MEMORY_v2, elements |-> element_glyph_count,
           indices |-> element_data ]
    ELSE [ status |-> RLH_RESULT_OK, elements |-> TileDataCount,
           indices |-> AppendedElements(element_glyph_count, TileDataCount) ]

\* the v2 rlhTermDrawMatrix as a call: the status it returns and what it
\* leaves behind.  The vertex data is uploaded if it changed, and
\* glDrawElements reads count tiles from the vertex buffer.
DrawMatrixCall_v2(matrix_4x4, realloc_ok) ==
    IF term = "NULL" \/ matrix_4x4 = "NULL"
    THEN Untouched(RLH_RESULT_ERROR_NULL_ARGUMENT_v2)
    ELSE IF TileDataCount = 0
    THEN Untouched(RLH_RESULT_OK)
    ELSE IF _rlhTermTryAppendElements(realloc_ok).status # RLH_RESULT_OK
    THEN Untouched(_rlhTermTryAppendElements(realloc_ok).status)
    ELSE LET uploaded == IF vertex_data_changed
                         THEN LivePrefix(TileData, TileDataCount)
                         ELSE gl_vertex_buffer
         IN  [ status |-> RLH_RESULT_OK,
               tiles |-> LivePrefix(uploaded, TileDataCount),
               count |-> IF retained THEN TileDataCount ELSE 0,
               data |-> IF retained THEN TileData ELSE Dead(TileData),
               gl |-> IF retained THEN uploaded ELSE <<>>,
               changed |-> FALSE,
               elements |-> _rlhTermTryAppendElements(realloc_ok).elements,
               indices |-> _rlhTermTryAppendElements(realloc_ok).indices,
               calls |-> [ glBufferData |-> IF vertex_data_changed THEN 1 ELSE 0,
                           glDraw |-> <<_rlhGetElementCount(TileDataCount)>> ] ]

rlhTermDrawMatrix_v2 ==
    /\ IsV2 /\ term \in {"NULL", "live"}
    /\ \E matrix_4x4 \in Pointers, realloc_ok \in BOOLEAN :
        /\ args' = [matrix_4x4 |-> matrix_4x4]
        /\ LET d == DrawMatrixCall_v2(matrix_4x4, realloc_ok)
           IN  Draws("rlhTermDrawMatrix", d, d.status)

rlhTermDraw_v2 ==
    /\ IsV2 /\ term \in {"NULL", "live"}
    /\ \E realloc_ok \in BOOLEAN :
        /\ args' = NoArgs
        /\ IF term = "NULL"
           THEN Draws("rlhTermDraw", Untouched(RLH_RESULT_ERROR_NULL_ARGUMENT_v2),
                      RLH_RESULT_ERROR_NULL_ARGUMENT_v2)
           ELSE Draws("rlhTermDraw", DrawMatrixCall_v2("valid", realloc_ok), RLH_RESULT_OK)

rlhTermDrawTranslated_v2 ==
    /\ IsV2 /\ term \in {"NULL", "live"}
    /\ \E realloc_ok \in BOOLEAN :
        /\ args' = NoArgs
        /\ IF term = "NULL"
           THEN Draws("rlhTermDrawTranslated", Untouched(RLH_RESULT_ERROR_NULL_ARGUMENT_v2),
                      RLH_RESULT_ERROR_NULL_ARGUMENT_v2)
           ELSE Draws("rlhTermDrawTranslated", DrawMatrixCall_v2("valid", realloc_ok),
                      RLH_RESULT_OK)

rlhTermDrawTransformed_v2 ==
    /\ IsV2 /\ term \in {"NULL", "live"}
    /\ \E realloc_ok \in BOOLEAN :
        /\ args' = NoArgs
        /\ IF term = "NULL"
           THEN Draws("rlhTermDrawTransformed", Untouched(RLH_RESULT_ERROR_NULL_ARGUMENT_v2),
                      RLH_RESULT_ERROR_NULL_ARGUMENT_v2)
           ELSE Draws("rlhTermDrawTransformed", DrawMatrixCall_v2("valid", realloc_ok),
                      RLH_RESULT_OK)

rlhTermDrawAligned ==
    /\ IsV2 /\ term \in {"NULL", "live"}
    /\ \E realloc_ok \in BOOLEAN :
        /\ args' = NoArgs
        /\ IF term = "NULL"
           THEN Draws("rlhTermDrawAligned", Untouched(RLH_RESULT_ERROR_NULL_ARGUMENT_v2),
                      RLH_RESULT_ERROR_NULL_ARGUMENT_v2)
           ELSE \* rlhTermDrawTranslated, whose status is dropped
                Draws("rlhTermDrawAligned", DrawMatrixCall_v2("valid", realloc_ok),
                      RLH_RESULT_OK)

----------------------------------------------------------------------------
Next ==
    \/ rlhTermCreatePixelDimensions
    \/ rlhTermCreateTileDimensions
    \/ rlhTermDestroy
    \/ rlhTermClearTileData
    \/ rlhTermGetTileCount
    \/ rlhTermResizePixelDimensions
    \/ rlhTermResizeTileDimensions
    \/ rlhTermPushFillTile
    \/ rlhTermPushTileGrid
    \/ rlhTermPushTileGridSized
    \/ rlhTermPushTileFree
    \/ rlhTermPushTileFreeSized
    \/ rlhTermDraw
    \/ rlhTermDrawCentered
    \/ rlhTermDrawTranslated
    \/ rlhTermDrawTransformed
    \/ rlhTermDrawMatrix
    \/ rlhTermCreate_v0
    \/ rlhTermDestroy_v0
    \/ rlhTermResizeConsole
    \/ rlhTermResizePixelScale
    \/ rlhTermResizeTiles
    \/ rlhTermChangeAtlas
    \/ rlhTermClear
    \/ rlhTermPushTileGrid_v0
    \/ rlhTermPushTileGridSized_v0
    \/ rlhTermPushTileFree_v0
    \/ rlhTermPushTileFreeSized_v0
    \/ rlhTermDraw_v0
    \/ rlhTermDrawTranslated_v0
    \/ rlhTermDrawTransformed_v0
    \/ rlhTermDrawMatrix_v0
    \/ rlhTermCreate
    \/ rlhTermDestroy_v2
    \/ rlhTermSetAtlas
    \/ rlhTermSetSize
    \/ rlhTermClearTileData_v2
    \/ rlhTermGetTileDataCount
    \/ rlhTermPushFill
    \/ rlhTermPushGrid
    \/ rlhTermPushGridSized
    \/ rlhTermPushFree
    \/ rlhTermPushFreeSized
    \/ rlhTermDraw_v2
    \/ rlhTermDrawAligned
    \/ rlhTermDrawTranslated_v2
    \/ rlhTermDrawTransformed_v2
    \/ rlhTermDrawMatrix_v2

Spec == Init /\ [][Next]_vars


----------------------------------------------------------------------------
(* The scissor of rlhTermDrawTranslated and rlhTermDrawTransformed, step by
   step: _setTermScissor (v0, v1) or _rlhSetTermScissor (v2), the inner
   rlhTermDrawMatrix, glDisable(GL_SCISSOR_TEST).  The specification above
   takes these draws as one step and leaves the scissor out; this one follows
   the scissor on a live terminal that holds no tile. *)

Translations == {0 - 3, 0 - 1, 0, 1}
ViewportHeights == {2, 5}
ConsoleWidths == {2, 4}
ConsoleHeight == 2
\* scale_x and scale_y, floats, as fractions <<numerator, denominator>>
DrawScalings == {<<1, 1>>, <<3, 2>>}

\* #define MAX(x, y) ((x) > (y)) ? (x) : y, as it expands in
\* `const int cropped_x = MAX(translate_x, 0);`
MAX(x, y) == IF x > y THEN x ELSE y

\* extent * scale, a float, converted to the int parameter: truncated
Scaled(extent, scale) == (extent * scale[1]) \div scale[2]

\* a scissor that moves the origin and keeps the extent
ScissorKeepsExtent(translate_x, translate_y, width, height) ==
    [ x |-> MAX(translate_x, 0), y |-> MAX(translate_y, 0),
      width |-> width, height |-> height ]

\* the arguments of glScissor in v0 and v1
_setTermScissor(translate_x, translate_y, width, height) ==
    LET cropped_x == MAX(translate_x, 0)
        cropped_y == MAX(translate_y, 0)
        translate_x_difference == cropped_x - translate_x
        translate_y_difference == cropped_y - translate_y
    IN  [ x |-> cropped_x, y |-> cropped_y,
          width |-> width - translate_x_difference,
          height |-> height - translate_y_difference ]

\* the y origin the v2 scissor starts from (it adds translate_x, not translate_y)
ActualTranslateY(translate_x, height, viewport_height) ==
    viewport_height - (translate_x + height)

\* the arguments of glScissor in v2
_rlhSetTermScissor(translate_x, translate_y, width, height, viewport_height) ==
    LET actual_translate_y == ActualTranslateY(translate_x, height, viewport_height)
        cropped_x == MAX(translate_x, 0)
        cropped_y == MAX(actual_translate_y, 0)
    IN  [ x |-> cropped_x, y |-> cropped_y,
          width |-> IF cropped_x # translate_x THEN width + translate_x ELSE width,
          height |-> IF cropped_y # actual_translate_y
                     THEN height + actual_translate_y ELSE height ]

\* a live terminal of one row of 2x2 tiles, just created, and no scissor yet
ScissorInit ==
    /\ version \in Versions
    /\ retained = FALSE
    /\ term = "live"
    /\ PixelWidth \in ConsoleWidths /\ PixelHeight = ConsoleHeight
    /\ TileWidth = 2 /\ TileHeight = 2 /\ PixelScale = 1
    /\ TilesWide = PixelWidth \div 2 /\ TilesTall = 1
    /\ TileDataCapacity = TilesWide
    /\ TileDataCount = 0
    /\ TileData = Realloc(<<>>, TilesWide)
    /\ glyph_count = 2
    /\ gl_vertex_buffer = <<>>
    /\ vertex_data_changed = FALSE
    /\ element_glyph_count = 0
    /\ element_data = <<>>
    /\ op = IF IsV1 THEN "rlhTermCreateTileDimensions" ELSE "rlhTermCreate"
    /\ args = NoArgs
    /\ grown = "none"
    /\ unfreed = 0
    /\ gl_calls = NoCalls
    /\ result = IF IsV0 THEN Void ELSE RLH_RESULT_OK
    /\ drawn = <<>>
    /\ pushed = <<>>
    /\ scissor = NoScissor

\* the draw function has computed its matrix and called the scissor function:
\* glScissor(box), glEnable(GL_SCISSOR_TEST)
SetsScissor(name, translate_x, translate_y, width, height, viewport_height) ==
    /\ scissor.pc \in {"none", "unset"}
    /\ scissor' = [ pc |-> "set", name |-> name,
                    translate_x |-> translate_x, translate_y |-> translate_y,
                    width |-> width, height |-> height,
                    viewport_height |-> viewport_height,
                    box |-> IF IsV2
                            THEN _rlhSetTermScissor(translate_x, translate_y, width,
                                                    height, viewport_height)
                            ELSE _setTermScissor(translate_x, translate_y, width, height),
                    test |-> TRUE ]
    /\ UNCHANGED terminal

TranslatedSetsScissor ==
    /\ term = "live"
    /\ \E translate_x \in Translations, translate_y \in Translations,
          viewport_height \in ViewportHeights :
        SetsScissor("rlhTermDrawTranslated", translate_x, translate_y,
                    PixelWidth, PixelHeight, viewport_height)

TransformedSetsScissor ==
    /\ term = "live"
    /\ \E translate_x \in Translations, translate_y \in Translations,
          scale_x \in DrawScalings, scale_y \in DrawScalings,
          viewport_height \in ViewportHeights :
        SetsScissor("rlhTermDrawTransformed", translate_x, translate_y,
                    Scaled(PixelWidth, scale_x), Scaled(PixelHeight, scale_y),
                    viewport_height)

\* the inner rlhTermDrawMatrix: the terminal holds no tile, nothing is drawn
ScissoredDrawMatrix ==
    /\ scissor.pc = "set"
    /\ scissor' = [scissor EXCEPT !.pc = "drawn"]
    /\ UNCHANGED terminal

\* glDisable(GL_SCISSOR_TEST), and the draw function returns
ScissorUnset ==
    /\ scissor.pc = "drawn"
    /\ scissor' = [scissor EXCEPT !.pc = "unset", !.test = FALSE]
    /\ UNCHANGED terminal

ScissorNext ==
    \/ TranslatedSetsScissor
    \/ TransformedSetsScissor
    \/ ScissoredDrawMatrix
    \/ ScissorUnset

ScissorSpec == ScissorInit /\ [][ScissorNext]_vars

----------------------------------------------------------------------------
(* The wire fields of the 18 byte record: the sized pushes of v0 and v1 with
   positions and sizes at the ends of the ranges the pushes accept *)

\* the headers whose record has 16 bit position and size fields
WireVersions == {"v0", "v1"}
\* grid cells of the one row console
WireCells == {<<0, 0>>, <<1, 0>>}
\* pixel positions: on the console, just off it, far off its left and top edge
WirePixels == {<<0, 0>>, <<0 - 2, 0>>, <<0 - 20000, 0>>, <<0, 0 - 20000>>}
\* sizes: the tile size, sizes reaching the console from far off, sizes at the
\* upper end of (0, RLH_MAX_TILE_SIZE] and one past it
WireSizes == {<<2, 2>>, <<20001, 2>>, <<2, 20001>>, <<65540, 2>>, <<2, 65565>>, <<65566, 2>>}

\* a v0 or v1 terminal just created: one row of two 2x2 tiles, no tile pushed
WireInit ==
    /\ version \in WireVersions
    /\ retained = FALSE
    /\ term = "live"
    /\ PixelWidth = 4 /\ PixelHeight = 2
    /\ TileWidth = 2 /\ TileHeight = 2 /\ PixelScale = 1
    /\ TilesWide = 2 /\ TilesTall = 1
    /\ TileDataCapacity = 2
    /\ TileDataCount = 0
    /\ TileData = Realloc(<<>>, 2)
    /\ glyph_count = 2
    /\ gl_vertex_buffer = <<>>
    /\ vertex_data_changed = FALSE
    /\ element_glyph_count = 0
    /\ element_data = <<>>
    /\ op = IF IsV1 THEN "rlhTermCreateTileDimensions" ELSE "rlhTermCreate"
    /\ args = NoArgs
    /\ grown = "none"
    /\ unfreed = 0
    /\ gl_calls = NoCalls
    /\ result = IF IsV0 THEN Void ELSE RLH_RESULT_OK
    /\ drawn = <<>>
    /\ pushed = <<>>
    /\ scissor = NoScissor

WirePushTileGridSized ==
    /\ term = "live" /\ TileDataCount < MaxTiles
    /\ \E cell \in WireCells, size \in WireSizes, look \in OneLook, realloc_ok \in BOOLEAN :
        IF IsV0
        THEN PushTileGridSizedCall_v0(cell, size, look, realloc_ok)
        ELSE PushTileGridSizedCall(cell, size, look, realloc_ok)
    /\ UNCHANGED PushFrame

WirePushTileFreeSized ==
    /\ term = "live" /\ TileDataCount < MaxTiles
    /\ \E pixel \in WirePixels, size \in WireSizes, look \in OneLook, realloc_ok \in BOOLEAN :
        IF IsV0
        THEN PushTileFreeSizedCall_v0(pixel, size, look, realloc_ok)
        ELSE PushTileFreeSizedCall(pixel, size, look, realloc_ok)
    /\ UNCHANGED PushFrame

WireNext ==
    \/ WirePushTileGridSized
    \/ WirePushTileFreeSized

WireSpec == WireInit /\ [][WireNext]_vars

----------------------------------------------------------------------------
(* Consoles of more than one tile and of a pixel scale above 1: the create
   and the default-size grid push of 1.2.0 and v2.0.0 *)

\* the headers with a pixel scale and a status for every push
ScaledVersions == {"v1", "v2"}
\* pixel scales of the console
ConsoleScales == {1, 2, 3}
\* console sizes in tiles <<wide, tall>>
ConsoleTiles == {<<1, 1>>, <<2, 1>>, <<2, 2>>}
\* the cells pushed at: those of a 2x2 grid, and one past its right edge
ScaledCells == {<<0, 0>>, <<1, 0>>, <<0, 1>>, <<1, 1>>, <<2, 0>>}

\* no terminal yet
ScaledInit == Init /\ version \in ScaledVersions /\ ~retained

\* rlhTermCreateTileDimensions (1.2.0), rlhTermCreate with a size in tiles
\* (v2.0.0)
ScaledCreate ==
    /\ term = "NULL"
    /\ \E tiles \in ConsoleTiles, pixel_scale \in ConsoleScales, tile_width \in TileDims, tile_height \in TileDims :
        IF IsV1
        THEN CreateTileDimensionsCall(tiles[1], tiles[2], pixel_scale, tile_width, tile_height, "valid", TRUE, TRUE)
        ELSE TermCreateCall("valid", "valid", [ width |-> tiles[1], height |-> tiles[2], size_mode |-> RLH_SIZE_TILES, floor_pixels_to_tiles |-> FALSE, pixel_scale |-> pixel_scale, tile_width |-> tile_width, tile_height |-> tile_height ], [ pixel_data |-> "valid", glyph_count |-> 2 ], TRUE, TRUE, TRUE)
    /\ UNCHANGED <<version, retained>>

\* rlhTermPushTileGrid (1.2.0), rlhTermPushGrid (v2.0.0)
ScaledPushGrid ==
    /\ term = "live" /\ TileDataCount < MaxTiles
    /\ \E cell \in ScaledCells, look \in OneLook, realloc_ok \in BOOLEAN :
        IF IsV1
        THEN PushTileGridCall(cell, look, realloc_ok) /\ UNCHANGED PushFrame
        ELSE PushGridCall(cell, look, realloc_ok) /\ UNCHANGED PushFrame_v2

ScaledNext ==
    \/ ScaledCreate
    \/ ScaledPushGrid

ScaledSpec == ScaledInit /\ [][ScaledNext]_vars

----------------------------------------------------------------------------
(* The element data of the indexed design (4 vertices and 6 indices per
   tile): src/README.md (v2.0.0) and the snapshot of the v2.0.0 header in
   src/unnamed/part_004, version "v2dev" *)

IsV2Dev == version = "v2dev"
ElementVersions == {"v2", "v2dev"}

\* part_004 _rlhTermTryAppendElements(term, elements_glyph_count): the count
\* is assigned before the loop, so the loop body never runs and the slots
\* realloc added stay unwritten
_rlhTermTryAppendElements_dev(realloc_ok, elements_glyph_count) ==
    IF element_glyph_count >= elements_glyph_count
    THEN [ status |-> RLH_RESULT_OK, elements |-> element_glyph_count,
           indices |-> element_data ]
    ELSE IF ~realloc_ok
    THEN [ status |-> RLH_RESULT_ERROR_OUT_OF_MEMORY_v2, elements |-> element_glyph_count,
           indices |-> element_data ]
    ELSE [ status |-> RLH_RESULT_OK, elements |-> elements_glyph_count,
           indices |-> AppendedElements(elements_glyph_count, elements_glyph_count) ]

\* part_004 rlhTermDrawMatrix: the status of _rlhTermTryAppendElements is
\* not looked at, no buffer is uploaded, glDrawElements is called, and the
\* tile data is not cleared
DrawMatrixCall_dev(matrix_4x4, realloc_ok) ==
    IF term = "NULL" \/ matrix_4x4 = "NULL"
    THEN Untouched(RLH_RESULT_ERROR_NULL_ARGUMENT_v2)
    ELSE IF TileDataCount > 0
    THEN [ status |-> RLH_RESULT_OK,
           tiles |-> LivePrefix(gl_vertex_buffer, TileDataCount),
           count |-> TileDataCount,
           data |-> TileData,
           gl |-> gl_vertex_buffer,
           changed |-> vertex_data_changed,
           elements |-> _rlhTermTryAppendElements_dev(realloc_ok, TileDataCount).elements,
           indices |-> _rlhTermTryAppendElements_dev(realloc_ok, TileDataCount).indices,
           calls |-> [ glBufferData |-> 0,
                       glDraw |-> <<_rlhGetElementCount(TileDataCount)>> ] ]
    ELSE Untouched(RLH_RESULT_OK)

\* part_004 _rlhTermPushTile: the glyph test, then the write (no rectangle
\* test, no dirty flag)
_rlhTermPushTile_dev(data, pixel_x, pixel_y, pixel_w, pixel_h, glyph, fg, bg) ==
    IF glyph > glyph_count
    THEN /\ TileData' = data
         /\ UNCHANGED <<TileDataCount, pushed, vertex_data_changed>>
    ELSE /\ WriteTile(data, VertexRecord(pixel_x, pixel_y, pixel_w, pixel_h, glyph, fg, bg))
         /\ UNCHANGED vertex_data_changed

\* part_004 rlhTermPushFill
PushFillCall_dev(look, realloc_ok) ==
    LET r == _rlhTermTryReserveVertexData(realloc_ok)
    IN  /\ args' = [glyph |-> look[1]]
        /\ grown' = r.realloc
        /\ TileDataCapacity' = r.capacity
        /\ IF ~r.ok
           THEN /\ TileData' = r.data
                /\ Outcome("rlhTermPushFill", RLH_RESULT_ERROR_OUT_OF_MEMORY_v2, <<>>)
                /\ UNCHANGED <<TileDataCount, pushed, vertex_data_changed>>
           ELSE /\ _rlhTermPushTile_dev(r.data, 0, 0, PixelWidth, PixelHeight,
                                        look[1], look[2], look[3])
                /\ Outcome("rlhTermPushFill", RLH_RESULT_OK, <<>>)

\* a terminal of one 2x2 tile just created, with an atlas of 2 glyphs
ElementInit ==
    /\ version \in ElementVersions
    /\ retained \in (IF version = "v2" THEN BOOLEAN ELSE {FALSE})
    /\ term = "live"
    /\ PixelWidth = 2 /\ PixelHeight = 2
    /\ TileWidth = 2 /\ TileHeight = 2 /\ PixelScale = 1
    /\ TilesWide = 1 /\ TilesTall = 1
    /\ TileDataCapacity = 1
    /\ TileDataCount = 0
    /\ TileData = Realloc(<<>>, 1)
    /\ glyph_count = 2
    /\ gl_vertex_buffer = <<>>
    /\ vertex_data_changed = FALSE
    /\ element_glyph_count = 0
    /\ element_data = <<>>
    /\ op = "rlhTermCreate"
    /\ args = NoArgs
    /\ grown = "none"
    /\ unfreed = 0
    /\ gl_calls = NoCalls
    /\ result = RLH_RESULT_OK
    /\ drawn = <<>>
    /\ pushed = <<>>
    /\ scissor = NoScissor

ElementPushFill ==
    /\ term = "live" /\ TileDataCount < MaxTiles
    /\ \E look \in TileLooks, realloc_ok \in BOOLEAN :
        IF IsV2 THEN PushFillCall(look, realloc_ok) ELSE PushFillCall_dev(look, realloc_ok)
    /\ UNCHANGED PushFrame_v2

\* rlhTermClearTileData: the same in both
ElementClear ==
    /\ term = "live"
    /\ CountReset
    /\ Returns("rlhTermClearTileData", RLH_RESULT_OK, <<>>)
    /\ UNCHANGED <<version, retained, term, sizing, glyph_count>>

ElementDrawMatrix ==
    /\ term = "live"
    /\ \E realloc_ok \in BOOLEAN :
        /\ args' = [matrix_4x4 |-> "valid"]
        /\ LET d == IF IsV2
                    THEN DrawMatrixCall_v2("valid", realloc_ok)
                    ELSE DrawMatrixCall_dev("valid", realloc_ok)
           IN  Draws("rlhTermDrawMatrix", d, d.status)

ElementNext ==
    \/ ElementPushFill
    \/ ElementClear
    \/ ElementDrawMatrix

ElementSpec == ElementInit /\ [][ElementNext]_vars
----------------------------------------------------------------------------
(* Properties *)

PushOps == {"rlhTermPushFillTile", "rlhTermPushTileGrid", "rlhTermPushTileGridSized",
            "rlhTermPushTileFree", "rlhTermPushTileFreeSized",
            "rlhTermPushFill", "rlhTermPushGrid", "rlhTermPushGridSized",
            "rlhTermPushFree", "rlhTermPushFreeSized"}
DrawOps == {"rlhTermDraw", "rlhTermDrawCentered", "rlhTermDrawAligned",
            "rlhTermDrawTranslated", "rlhTermDrawTransformed", "rlhTermDrawMatrix"}
ResizeOps == {"rlhTermResizePixelDimensions", "rlhTermResizeTileDimensions",
              "rlhTermResizeConsole", "rlhTermResizePixelScale", "rlhTermResizeTiles",
              "rlhTermSetSize"}
AtlasOps == {"rlhTermChangeAtlas", "rlhTermSetAtlas"}

\* the out-of-memory status of the compiled generation
OutOfMemory ==
    IF IsV2 THEN RLH_RESULT_ERROR_OUT_OF_MEMORY_v2 ELSE RLH_RESULT_ERROR_OUT_OF_MEMORY

\* the statuses of a call that succeeded: OK, or nothing from a void function
Succeeded == {RLH_RESULT_OK, Void}

\* the reserve of the compiled generation
TryReserve(realloc_ok) ==
    IF IsV2 THEN _rlhTermTryReserveVertexData(realloc_ok)
    ELSE IF IsV1 THEN _rlhTermTryReserve(realloc_ok)
    ELSE _rlhTermTryReserve_v0(realloc_ok)

\* C1: in every reachable state of a live terminal the live tile count is at
\* most the allocated capacity.
C1_CountWithinCapacity ==
    term = "live" => TileDataCount <= TileDataCapacity

\* C2: the buffer holds as many records as pushes were accepted since it was
\* last empty, and record i holds the data of the i-th of them, whatever
\* reallocations happened in between.
C2_PushesStored ==
    term = "live" =>
        /\ TileDataCount = Len(pushed)
        /\ \A i \in 1..Len(pushed) : Slot(TileData, i - 1) = pushed[i]

\* C3: a push whose buffer growth fails (it returns the out-of-memory status;
\* in v0, which returns nothing, it appends nothing) leaves the capacity, the
\* count and the stored records exactly as they were.
C3_FailedGrowthLeavesBuffer ==
    [][ ( /\ op' \in PushOps
          /\ \/ ~IsV0 /\ result' = OutOfMemory
             \/ IsV0 /\ TileDataCount' = TileDataCount )
        => UNCHANGED <<TileDataCapacity, TileDataCount, TileData>> ]_vars

\* C3 witness: a push into a full buffer holding one record failed with the
\* out-of-memory status, and the record is still there.
C3_Witness ==
    /\ op \in PushOps
    /\ result = OutOfMemory
    /\ TileDataCount = 1
    /\ TileDataCapacity = 1
    /\ TileData = pushed

\* C4: whenever reserve reports success the capacity is strictly greater
\* than the count, for every capacity the terminal can have, 0 included.
C4_ReserveMakesRoom ==
    term = "live" =>
        \A realloc_ok \in BOOLEAN :
            TryReserve(realloc_ok).ok => TryReserve(realloc_ok).capacity > TileDataCount

\* C5 as stated: while a terminal lives its capacity changes only in a push
\* that found count = capacity, and then it doubles.
C5_CapacityOnlyDoubles ==
    [][ (term = "live" /\ term' = "live" /\ TileDataCapacity' # TileDataCapacity)
        => /\ op' \in PushOps
           /\ TileDataCount = TileDataCapacity
           /\ TileDataCapacity' = 2 * TileDataCapacity ]_vars

\* C5: while a terminal lives its capacity changes only in a push that found
\* count = capacity (so clear, draw, resize and atlas change leave it alone),
\* and then it doubles, except that the v2 reserve grows a capacity of 0 to 8.
C5_CapacityOnlyGrows ==
    [][ (term = "live" /\ term' = "live" /\ TileDataCapacity' # TileDataCapacity)
        => /\ op' \in PushOps
           /\ TileDataCount = TileDataCapacity
           /\ TileDataCapacity' = IF IsV2 /\ TileDataCapacity = 0
                                  THEN FirstCapacity
                                  ELSE 2 * TileDataCapacity ]_vars

\* C5 witness: a v2 push grew an empty allocation to 8 slots and stored its tile.
C5_Witness ==
    /\ IsV2
    /\ op \in PushOps
    /\ TileDataCapacity = FirstCapacity
    /\ TileDataCount = 1
    /\ TileData[1] = pushed[1]

\* C6: record order is FIFO: a push that is accepted writes its record at
\* index count and leaves the earlier records as they were, and a draw that
\* submits tiles submits the accepted pushes since the last clear, in push
\* order from record 0.
C6_Fifo ==
    [][ /\ (op' \in PushOps /\ TileDataCount' = TileDataCount + 1)
            => /\ Slot(TileData', TileDataCount) = pushed'[Len(pushed')]
               /\ \A i \in 0..(TileDataCount - 1) :
                      Slot(TileData', i) = Slot(TileData, i)
        /\ (op' \in DrawOps /\ drawn' # <<>>) => drawn' = pushed ]_vars

\* C7: without RLH_RETAINED_MODE, after any draw call that returned OK the
\* live tile count is 0.
C7_DrawLeavesEmpty ==
    (~retained /\ op \in DrawOps /\ result = RLH_RESULT_OK) => TileDataCount = 0

\* C8: with RLH_RETAINED_MODE a draw leaves the live tile count and the
\* records unchanged.
C8_RetainedDrawKeeps ==
    [][ (retained /\ op' \in DrawOps) => UNCHANGED <<TileDataCount, TileData>> ]_vars

\* C8 witness: with RLH_RETAINED_MODE one tile was pushed, a draw submitted
\* it, and it is still the one live tile.
C8_Witness ==
    /\ retained
    /\ op \in DrawOps
    /\ TileDataCount = 1
    /\ Len(drawn) = 1
    /\ drawn = pushed
    /\ Slot(TileData, 0) = pushed[1]

\* C9: a resize that succeeds (by tile-grid dimensions, pixel dimensions,
\* pixel scale or tile pixel size) leaves the live tile count 0 and the
\* capacity as it was.
C9_ResizeResets ==
    [][ (op' \in ResizeOps /\ result' \in Succeeded)
        => (TileDataCount' = 0 /\ UNCHANGED TileDataCapacity) ]_vars

\* C10: an atlas replacement that succeeds leaves the live tile count 0 and
\* the capacity as it was.
C10_AtlasChangeResets ==
    [][ (op' \in AtlasOps /\ result' \in Succeeded)
        => (TileDataCount' = 0 /\ UNCHANGED TileDataCapacity) ]_vars

\* the pushes that place a tile by grid cell
GridOps == {"rlhTermPushTileGrid", "rlhTermPushTileGridSized",
            "rlhTermPushGrid", "rlhTermPushGridSized"}

\* C11: a grid push (default or explicit size) at a cell with grid_x or grid_y
\* negative, or not below the terminal's TilesWide, TilesTall, does not
\* increase the live tile count.
C11_GridOutsideRejected ==
    [][ ( /\ op' \in GridOps
          /\ \/ args'.grid_x < 0 \/ args'.grid_y < 0
             \/ args'.grid_x >= TilesWide \/ args'.grid_y >= TilesTall )
        => TileDataCount' = TileDataCount ]_vars

\* the pushes that place a tile by pixel position
FreeOps == {"rlhTermPushTileFree", "rlhTermPushTileFreeSized",
            "rlhTermPushFree", "rlhTermPushFreeSized"}
SizedOps == {"rlhTermPushTileGridSized", "rlhTermPushTileFreeSized",
             "rlhTermPushGridSized", "rlhTermPushFreeSized"}

\* the width and height of the rectangle a push asks for: the explicit size
\* of a sized push, the terminal's tile size otherwise
AskedWidth(a) ==
    IF "tile_pixel_width" \in DOMAIN a THEN a.tile_pixel_width ELSE TileWidth
AskedHeight(a) ==
    IF "tile_pixel_height" \in DOMAIN a THEN a.tile_pixel_height ELSE TileHeight

\* the rectangle of a free push intersects [0, PixelWidth) x [0, PixelHeight)
Intersects(a) ==
    /\ a.screen_pixel_x < PixelWidth
    /\ a.screen_pixel_x + AskedWidth(a) > 0
    /\ a.screen_pixel_y < PixelHeight
    /\ a.screen_pixel_y + AskedHeight(a) > 0
    /\ AskedWidth(a) > 0
    /\ AskedHeight(a) > 0

\* C12: a free push (default or explicit size) whose rectangle does not
\* intersect [0, PixelWidth) x [0, PixelHeight) does not increase the live
\* tile count.
C12_FreeOutsideRejected ==
    [][ (op' \in FreeOps /\ ~Intersects(args'))
        => TileDataCount' = TileDataCount ]_vars

\* the size a push asks for lies in (0, RLH_MAX_TILE_SIZE] on both axes
ValidSize(a) ==
    /\ AskedWidth(a) > 0 /\ AskedWidth(a) <= RLH_MAX_TILE_SIZE
    /\ AskedHeight(a) > 0 /\ AskedHeight(a) <= RLH_MAX_TILE_SIZE

\* the glyph of a push is one of the terminal's atlas (the v1 terminal has no
\* atlas of its own)
ValidGlyph(a) == IsV1 \/ a.glyph < glyph_count

\* C13: a free push with a valid size and glyph whose rectangle overlaps the
\* console's pixel area, and whose buffer growth does not fail, increases the
\* live tile count by exactly one.
C13_FreeOverlapAccepted ==
    [][ ( /\ op' \in FreeOps
          /\ Intersects(args') /\ ValidSize(args') /\ ValidGlyph(args')
          /\ IF IsV0 THEN TileDataCount # TileDataCapacity ELSE result' # OutOfMemory )
        => TileDataCount' = TileDataCount + 1 ]_vars

\* C14: a grid-sized or free-sized push whose explicit width or height lies
\* outside (0, RLH_MAX_TILE_SIZE] does not increase the live tile count.
C14_BadSizeRejected ==
    [][ (op' \in SizedOps /\ ~ValidSize(args'))
        => TileDataCount' = TileDataCount ]_vars

\* C15: a push of any variant whose glyph is equal to or greater than the
\* terminal's glyph count does not increase the live tile count, and no
\* record holds atlas coordinates read past the end of the glyph table
\* (stated for v0 and v2, whose terminal owns the atlas).
C15_BadGlyphRejected ==
    [][ (op' \in PushOps /\ ~IsV1)
        => /\ args'.glyph >= glyph_count => TileDataCount' = TileDataCount
           /\ IsV2 => \A i \in 1..Len(pushed') : pushed'[i].atlas # Garbage ]_vars


\* C16: a push whose growth of the tile buffer fails reports the out-of-memory
\* status of its generation to the caller
C16_FailedGrowthReported ==
    [][ (op' \in PushOps /\ grown' = "failed") => result' = OutOfMemory ]_vars

\* the status for a null argument in the compiled generation
NullArgument ==
    IF IsV2 THEN RLH_RESULT_ERROR_NULL_ARGUMENT_v2 ELSE RLH_RESULT_ERROR_NULL_ARGUMENT

\* the operations that take a terminal handle
HandleOps ==
    PushOps \cup DrawOps \cup ResizeOps
    \cup {"rlhTermClearTileData", "rlhTermClear", "rlhTermGetTileCount",
          "rlhTermGetTileDataCount", "rlhTermDestroy"}

\* C17: every operation on a terminal that is handed a null handle reports the
\* null-argument status (and so never reads through the handle)
C17_NullHandleReported ==
    [][ (term = "NULL" /\ op' \in HandleOps) => result' = NullArgument ]_vars

\* C18: a draw of a terminal that holds no tile uploads nothing and submits no
\* draw, and unless it was refused for a null argument it reports success
C18_EmptyDrawIsNoOp ==
    [][ (op' \in DrawOps /\ term = "live" /\ TileDataCount = 0)
        => /\ gl_calls' = NoCalls
           /\ result' # NullArgument => result' \in Succeeded ]_vars

\* a draw of an empty live terminal has returned success
C18_Witness ==
    /\ op \in DrawOps /\ term = "live" /\ result \in Succeeded
    /\ TileDataCount = 0 /\ drawn = <<>> /\ gl_calls = NoCalls

\* C19: a draw that reports success on a terminal holding count > 0 tiles
\* submits exactly one draw, and that draw reads exactly count * 6 vertices
\* (v0, v1) or indices (v2)
C19_OneSubmissionOfCount ==
    [][ (op' \in DrawOps /\ term = "live" /\ TileDataCount > 0 /\ result' \in Succeeded)
        => gl_calls'.glDraw = <<TileDataCount * 6>> ]_vars

\* C20: two draws in a row, with no other call between them, upload the tile
\* data at most once
C20_UploadOnlyWhenChanged ==
    [][ (op \in DrawOps /\ op' \in DrawOps)
        => gl_calls.glBufferData + gl_calls'.glBufferData <= 1 ]_vars

ClearOps == {"rlhTermClearTileData", "rlhTermClear"}

\* C21: a clear of a live terminal sets the tile count to 0 and leaves the
\* capacity, and the storage of that capacity, allocated
C21_ClearKeepsCapacity ==
    [][ (op' \in ClearOps /\ term = "live")
        => /\ TileDataCount' = 0
           /\ TileDataCapacity' = TileDataCapacity
           /\ Len(TileData') = Len(TileData)
           /\ term' = "live" ]_vars

\* a clear has emptied a terminal that keeps a capacity
C21_Witness ==
    /\ op \in ClearOps /\ term = "live" /\ result \in Succeeded
    /\ TileDataCount = 0 /\ TileDataCapacity > 0

\* C22: a clear that follows a clear changes nothing of the terminal
C22_ClearTwiceIsClearOnce ==
    [][ (op \in ClearOps /\ op' \in ClearOps /\ term = "live")
        => /\ TileDataCount' = 0
           /\ UNCHANGED <<term, sizing, buffer, glyph_count, gpu>>
           /\ result' = result ]_vars

\* a terminal that a clear has just emptied, on which the next clear can act
C22_Witness ==
    /\ op \in ClearOps /\ term = "live" /\ result \in Succeeded
    /\ TileDataCount = 0 /\ pushed = <<>> /\ Len(TileData) = TileDataCapacity
    /\ TileDataCapacity >= 2

\* the statuses that report success or an error in the compiled generation
OkAndErrorCodes ==
    IF IsV2
    THEN {RLH_RESULT_OK, RLH_RESULT_ERROR_NULL_ARGUMENT_v2,
          RLH_RESULT_ERROR_INVALID_VALUE_v2, RLH_RESULT_ERROR_OUT_OF_MEMORY_v2}
    ELSE {RLH_RESULT_OK, RLH_RESULT_ERROR_NULL_ARGUMENT,
          RLH_RESULT_ERROR_INVALID_VALUE, RLH_RESULT_ERROR_OUT_OF_MEMORY}

\* C23: in the generations whose pushes return a status, a push on a live
\* terminal that stores no tile although its buffer growth did not fail (a
\* rejected tile) returns a status that is neither OK nor an error code
C23_RejectionSurfaced ==
    [][ ( /\ op' \in PushOps /\ ~IsV0 /\ term = "live"
          /\ TileDataCount' = TileDataCount /\ grown' # "failed" )
        => result' \notin OkAndErrorCodes ]_vars

FillOps == {"rlhTermPushFillTile", "rlhTermPushFill"}

\* the value a reader finds in the two bytes of a 16 bit field
Value16(bytes) == bytes[1] + 256 * bytes[2]

\* a stored record that lies at (0, 0) and is as wide and as tall as the console
CoversConsole(record) ==
    IF IsV2
    THEN /\ record # Garbage /\ record # Uninit
         /\ record.s[1] = 0 /\ record.t[1] = PixelWidth
         /\ record.p[1] = 0 /\ record.q[1] = PixelHeight
    ELSE /\ record # Garbage /\ record # Uninit
         /\ Value16(record.x) - RLH_TILE_POSITION_OFFSET = 0
         /\ Value16(record.y) - RLH_TILE_POSITION_OFFSET = 0
         /\ Value16(record.w) = PixelWidth
         /\ Value16(record.h) = PixelHeight

\* C24: a fill push with a valid glyph that reports success has appended
\* exactly one record, at (0, 0) and of the pixel size of the console
C24_FillCoversConsole ==
    [][ (op' \in FillOps /\ term = "live" /\ ValidGlyph(args') /\ result' = RLH_RESULT_OK)
        => /\ TileDataCount' = TileDataCount + 1
           /\ CoversConsole(Slot(TileData', TileDataCount)) ]_vars

CreateOps == {"rlhTermCreate", "rlhTermCreatePixelDimensions", "rlhTermCreateTileDimensions"}

\* C25: a creation that hands out a live terminal leaves it with no tile and
\* with storage for exactly tiles wide times tiles tall tiles
C25_CreatedEmptyWithTileArea ==
    [][ (op' \in CreateOps /\ term' = "live" /\ result' \in Succeeded)
        => /\ TileDataCount' = 0
           /\ TileDataCapacity' = TilesWide' * TilesTall'
           /\ Len(TileData') = TilesWide' * TilesTall' ]_vars

\* a creation has just handed out a terminal of at least one tile
C25_Witness ==
    /\ op \in CreateOps /\ term = "live" /\ result \in Succeeded
    /\ TilesWide * TilesTall >= 1 /\ TileDataCapacity = TilesWide * TilesTall
    /\ TileDataCount = 0

\* C26: a creation that fails (it returns an error status, or its malloc of
\* the tile buffer failed) leaves the caller with a null handle and leaves no
\* block allocated
C26_FailedCreationLeavesNothing ==
    [][ (op' \in CreateOps /\ (result' \notin Succeeded \/ grown' = "failed"))
        => term' = "NULL" /\ unfreed' = 0 ]_vars

\* a draw call that was handed a null atlas or a null matrix
NullResource(a) ==
    \/ "atlas" \in DOMAIN a /\ a.atlas = "NULL"
    \/ "matrix_4x4" \in DOMAIN a /\ a.matrix_4x4 = "NULL"

\* C27: a draw of a live terminal that is handed a null atlas or matrix
\* returns the null-argument status, submits and uploads nothing and leaves
\* the tile buffer as it was
C27_NullResourceReported ==
    [][ (op' \in DrawOps /\ term = "live" /\ NullResource(args'))
        => /\ result' = NullArgument
           /\ gl_calls' = NoCalls
           /\ UNCHANGED <<TileDataCount, TileDataCapacity, TileData>> ]_vars

\* the origin the scissor function clamps: what it hands to MAX
ScissorOriginX == scissor.translate_x
ScissorOriginY ==
    IF IsV2
    THEN ActualTranslateY(scissor.translate_x, scissor.height, scissor.viewport_height)
    ELSE scissor.translate_y

\* C28: the box a translated or transformed draw gives to glScissor has a
\* non-negative origin; on an axis whose origin was clamped up to 0 the extent
\* is the draw's extent less the clamped amount, on the other axes it is the
\* draw's extent; and when the draw has returned the scissor test is off
C28_ScissorClamped ==
    scissor.pc # "none"
    => /\ scissor.box.x >= 0 /\ scissor.box.y >= 0
       /\ scissor.box.x = MAX(ScissorOriginX, 0)
       /\ scissor.box.y = MAX(ScissorOriginY, 0)
       /\ scissor.box.width = scissor.width - (scissor.box.x - ScissorOriginX)
       /\ scissor.box.height = scissor.height - (scissor.box.y - ScissorOriginY)
       /\ scissor.pc = "unset" => ~scissor.test

\* a draw translated off the left edge has returned: its x origin was clamped
C28_Witness ==
    /\ scissor.pc = "unset" /\ ~scissor.test
    /\ scissor.translate_x < 0 /\ scissor.box.x = 0
    /\ scissor.box.width = scissor.width + scissor.translate_x

\* the pixel position a push hands to _rlhTermPushTile
\* (a fill push places its tile at the origin)
PushedPixelX(a) == IF "grid_x" \in DOMAIN a THEN a.grid_x * TileWidth ELSE IF "screen_pixel_x" \in DOMAIN a THEN a.screen_pixel_x ELSE 0
PushedPixelY(a) == IF "grid_y" \in DOMAIN a THEN a.grid_y * TileHeight ELSE IF "screen_pixel_y" \in DOMAIN a THEN a.screen_pixel_y ELSE 0
\* the record the last accepted push wrote
Written(records) == records[Len(records)]

\* C29: for every tile a push of the 18 byte record headers accepts, the
\* biased position lies in 0..65535 on each axis, and the stored 16 bit field
\* less the bias is the pushed pixel position (negative positions included).
C29_BiasedPositionFits ==
    [][ (op' \in PushOps /\ ~IsV2 /\ term = "live" /\ TileDataCount' = TileDataCount + 1)
        => /\ PushedPixelX(args') + RLH_TILE_POSITION_OFFSET \in 0..65535
           /\ PushedPixelY(args') + RLH_TILE_POSITION_OFFSET \in 0..65535
           /\ Value16(Written(pushed').x) - RLH_TILE_POSITION_OFFSET = PushedPixelX(args')
           /\ Value16(Written(pushed').y) - RLH_TILE_POSITION_OFFSET = PushedPixelY(args') ]_vars

\* C30: every width and height the size validation accepts, that is every
\* one in (0, 65565], is stored unchanged: the record's 16 bit width and
\* height fields hold the values that were pushed.
C30_SizeStoredUnchanged ==
    [][ (op' \in SizedOps /\ ~IsV2 /\ term = "live" /\ ValidSize(args')
         /\ TileDataCount' = TileDataCount + 1)
        => /\ Value16(Written(pushed').w) = args'.tile_pixel_width
           /\ Value16(Written(pushed').h) = args'.tile_pixel_height ]_vars

\* RLH_RESULT_COUNT, the declared length of RLH_RESULT_DESCRIPTIONS
RLH_RESULT_COUNT_v1 == 5
RLH_RESULT_COUNT_v2 == 4
RLH_RESULT_COUNT == IF IsV2 THEN RLH_RESULT_COUNT_v2 ELSE RLH_RESULT_COUNT_v1
\* the initialisers of RLH_RESULT_DESCRIPTIONS in their order
Descriptions == IF IsV2 THEN <<"no errors occured", "unexpected null argument", "unexpected argument value", "out of memory">> ELSE <<"no errors occured", "tile out of terminal", "unexpected null argument", "unexpected argument value", "out of memory">>
\* the array: C indexes it from 0
RLH_RESULT_DESCRIPTIONS == [i \in 0..(RLH_RESULT_COUNT - 1) |-> Descriptions[i + 1]]
\* the description written for each enumerator of rlhresult_t
DescriptionOf(code) == IF code = RLH_RESULT_OK THEN "no errors occured" ELSE IF IsV2 THEN (IF code = RLH_RESULT_ERROR_NULL_ARGUMENT_v2 THEN "unexpected null argument" ELSE IF code = RLH_RESULT_ERROR_INVALID_VALUE_v2 THEN "unexpected argument value" ELSE "out of memory") ELSE (IF code = RLH_RESULT_TILE_OUT_OF_TERMINAL THEN "tile out of terminal" ELSE IF code = RLH_RESULT_ERROR_NULL_ARGUMENT THEN "unexpected null argument" ELSE IF code = RLH_RESULT_ERROR_INVALID_VALUE THEN "unexpected argument value" ELSE "out of memory")
\* the last call returned a result code (not void, not an indeterminate value)
ReturnedCode == result # Void /\ result # Indeterminate

\* C31: every result code a function returns is an index of
\* RLH_RESULT_DESCRIPTIONS, less than RLH_RESULT_COUNT, and the array holds
\* the description of that code at that index.
C31_ResultCodeDescribed ==
    ReturnedCode => /\ result < RLH_RESULT_COUNT
                    /\ result \in DOMAIN RLH_RESULT_DESCRIPTIONS
                    /\ RLH_RESULT_DESCRIPTIONS[result] = DescriptionOf(result)

\* the cell of a grid push is one of the console grid
InGrid(a) ==
    /\ 0 <= a.grid_x /\ a.grid_x < TilesWide
    /\ 0 <= a.grid_y /\ a.grid_y < TilesTall

\* C32: every tile a grid push accepts (the live tile count went up by one)
\* lies in a cell of the console grid: 0 <= grid_x < TilesWide and
\* 0 <= grid_y < TilesTall.
C32_AcceptedGridInGrid ==
    [][ (op' \in GridOps /\ term = "live" /\ TileDataCount' = TileDataCount + 1)
        => InGrid(args') ]_vars

\* the grid pushes of the default tile size
DefaultGridOps == {"rlhTermPushTileGrid", "rlhTermPushGrid"}

\* C33: at every pixel scale (scales above 1 included) a default-size grid
\* push at a cell of the console grid with a valid glyph, whose buffer growth
\* does not fail, increases the live tile count by exactly one.
C33_InGridCellAccepted ==
    [][ ( /\ op' \in DefaultGridOps /\ term = "live" /\ PixelScale >= 1
          /\ InGrid(args') /\ ValidGlyph(args') /\ grown' # "failed" )
        => TileDataCount' = TileDataCount + 1 ]_vars

\* C34: a rejected push (one that neither adds a tile nor fails to grow the
\* buffer) leaves the terminal as it was: the live tile count, the capacity,
\* the stored records and the dirty flag are unchanged.
C34_RejectedPushIsNoOp ==
    [][ ( /\ op' \in PushOps /\ term = "live"
          /\ TileDataCount' = TileDataCount /\ grown' # "failed" )
        => /\ TileDataCapacity' = TileDataCapacity
           /\ TileData' = TileData
           /\ vertex_data_changed' = vertex_data_changed ]_vars

\* the draws that compute a matrix and call rlhTermDrawMatrix with it
WrapperDrawOps == DrawOps \ {"rlhTermDrawMatrix"}
\* the inner rlhTermDrawMatrix of the draw just made ran out of memory: the
\* terminal held tiles and nothing was submitted, with no null argument
InnerOutOfMemory == ~NullResource(args') /\ TileDataCount > 0 /\ gl_calls'.glDraw = <<>>

\* C35: the fit-to-viewport, centered or aligned, translated and transformed
\* draws return the status of the inner matrix draw: the null argument
\* status when it fails for a null argument, the out of memory status when
\* it fails to grow the element data.
C35_WrapperReturnsInnerStatus ==
    [][ (op' \in WrapperDrawOps /\ term = "live")
        => /\ NullResource(args') => result' = NullArgument
           /\ InnerOutOfMemory => result' = OutOfMemory ]_vars

FourVertexIndices(i) == <<4 * i, 4 * i + 1, 4 * i + 2, 4 * i + 1, 4 * i + 2, 4 * i + 3>>

\* C37: in the indexed design, at every draw submission the element data has
\* been generated for at least count tiles, and the six indices of each tile
\* i < count are 4i, 4i+1, 4i+2, 4i+1, 4i+2, 4i+3, the four vertices of tile i.
C37_ElementsOfOwnTile ==
    [][ ( /\ op' \in DrawOps /\ term = "live" /\ (IsV2 \/ IsV2Dev)
          /\ gl_calls'.glDraw # <<>> )
        => /\ element_glyph_count' >= TileDataCount
           /\ Len(element_data') >= TileDataCount
           /\ \A i \in 0..(TileDataCount - 1) :
                /\ element_data'[i + 1] # Uninit
                /\ element_data'[i + 1].indices = FourVertexIndices(i) ]_vars

\* C38: for every translation and viewport of a translated or transformed
\* draw, the width and the height given to glScissor are not negative, also
\* when the terminal lies wholly off the top or left of the viewport.
C38_ScissorExtentNotNegative ==
    scissor.pc # "none" => /\ scissor.box.width >= 0
                           /\ scissor.box.height >= 0
====
